---- MODULE Spec2Model ----
(***************************************************************************)
(* A model of the translation-consistency core of i18nspector:             *)
(*   - lib/gettext.py: the plural-expression tokenizer, the ?: rewriting   *)
(*     and parse_plural_expression / parse_plural_forms;                   *)
(*   - lib/check/__init__.py: Checker.check_plurals.                       *)
(* Strings are sequences of one-character strings.  lib/intexpr.py is not  *)
(* part of the sources at hand; Expression, its evaluation, codomain() and *)
(* period() are modelled from the specification's description of them.     *)
(***************************************************************************)
EXTENDS Integers, Sequences, FiniteSets, TLC

(***************************************************************************)
(* Characters                                                              *)
(***************************************************************************)
Digits == {"0", "1", "2", "3", "4", "5", "6", "7", "8", "9"}

DigitVal(c) ==
    CASE c = "0" -> 0 [] c = "1" -> 1 [] c = "2" -> 2 [] c = "3" -> 3
      [] c = "4" -> 4 [] c = "5" -> 5 [] c = "6" -> 6 [] c = "7" -> 7
      [] c = "8" -> 8 [] c = "9" -> 9

NL == "\n"
TAB == "\t"

\* s[p] or "" past the end
At(s, p) == IF p >= 1 /\ p <= Len(s) THEN s[p] ELSE ""

Slice(s, a, b) == IF a > b THEN <<>> ELSE SubSeq(s, a, b)

(***************************************************************************)
(* gettext.py: _plural_exp_tokens, _plural_exp_token_re                    *)
(***************************************************************************)
RECURSIVE DigitRun(_, _)
\* length of the longest run of digits of s that starts at p ([0-9]+)
DigitRun(s, p) == IF At(s, p) \in Digits THEN 1 + DigitRun(s, p + 1) ELSE 0

\* The token the alternation matches at position p of s, the alternatives
\* tried in the order of the table: len = 0 when none matches (the junk
\* alternative `.` matches every character except a line feed); group is
\* the named group that matched ("" for the anonymous alternatives).
plural_exp_token_re(s, p) ==
    LET c == At(s, p)
        d == At(s, p + 1)
    IN  CASE c \in Digits -> [len |-> DigitRun(s, p), group |-> ""]
          [] c \in {"=", "!"} /\ d = "=" -> [len |-> 2, group |-> ""]
          [] c = "!" -> [len |-> 1, group |-> "not"]
          [] c = "&" /\ d = "&" -> [len |-> 2, group |-> "and"]
          [] c = "|" /\ d = "|" -> [len |-> 2, group |-> "or"]
          [] c \in {"<", ">"} -> [len |-> IF d = "=" THEN 2 ELSE 1, group |-> ""]
          [] c \in {"*", "/", "%"} -> [len |-> 1, group |-> ""]
          [] c \in {"+", "-"} -> [len |-> 1, group |-> ""]
          [] c = "n" -> [len |-> 1, group |-> ""]
          [] c \in {"?", ":"} -> [len |-> 1, group |-> ""]
          [] c \in {"(", ")"} -> [len |-> 1, group |-> ""]
          [] c \in {" ", TAB} -> [len |-> 1, group |-> ""]
          [] c = NL -> [len |-> 0, group |-> ""]
          [] OTHER -> [len |-> 1, group |-> "_"]

\* the token that stands for the exception the generator raises on junk
Junk == <<"JUNK">>

\* ' {} '.format(pytoken)
Spaced(word) == <<" ">> \o word \o <<" ">>

PyToken(group) ==
    CASE group = "not" -> <<"n", "o", "t">>
      [] group = "and" -> <<"a", "n", "d">>
      [] group = "or" -> <<"o", "r">>

RECURSIVE plural_exp_tokenize_from(_, _)
\* _plural_exp_tokenize: the tokens finditer yields from position p on; the
\* generator ends with Junk where it raises PluralExpressionSyntaxError.
\* finditer skips a position where nothing matches.
plural_exp_tokenize_from(s, p) ==
    IF p > Len(s) THEN <<>>
    ELSE LET m == plural_exp_token_re(s, p)
         IN  IF m.len = 0 THEN plural_exp_tokenize_from(s, p + 1)
             ELSE IF m.group = "_" THEN <<Junk>>
             ELSE IF m.group # "" THEN
                 <<Spaced(PyToken(m.group))>> \o plural_exp_tokenize_from(s, p + m.len)
             ELSE <<Slice(s, p, p + m.len - 1)>> \o plural_exp_tokenize_from(s, p + m.len)

plural_exp_tokenize(s) == plural_exp_tokenize_from(s, 1)

(***************************************************************************)
(* gettext.py: _ifelse_re, _subst_ifelse                                   *)
(***************************************************************************)
RECURSIVE FirstIndex(_, _, _)
\* the first position >= p of s that holds c, or 0
FirstIndex(s, c, p) ==
    IF p > Len(s) THEN 0
    ELSE IF s[p] = c THEN p
    ELSE FirstIndex(s, c, p + 1)

\* (.*?)[?](.*?):(.*) searched in s: the lazy groups stop at the first `?`
\* and at the first `:` after it, the greedy one takes the rest.  (The
\* strings it is applied to hold no line feed.)
ifelse_re(s) ==
    LET q == FirstIndex(s, "?", 1)
        c == IF q = 0 THEN 0 ELSE FirstIndex(s, ":", q + 1)
    IN  IF q = 0 \/ c = 0 THEN [matched |-> FALSE, g1 |-> <<>>, g2 |-> <<>>, g3 |-> <<>>]
        ELSE [matched |-> TRUE,
              g1 |-> Slice(s, 1, q - 1),
              g2 |-> Slice(s, q + 1, c - 1),
              g3 |-> Slice(s, c + 1, Len(s))]

\* _subst_ifelse leaving the false branch as it is
subst_ifelse_flat(s) ==
    LET m == ifelse_re(s)
    IN  IF ~m.matched THEN s
        ELSE <<"(">> \o m.g2 \o <<" ", "i", "f", " ">> \o m.g1
             \o <<" ", "e", "l", "s", "e", " ">> \o m.g3 \o <<")">>

RECURSIVE subst_ifelse(_)
\* '({true} if {cond} else {false})', false rewritten recursively
subst_ifelse(s) ==
    LET m == ifelse_re(s)
    IN  IF ~m.matched THEN s
        ELSE <<"(">> \o m.g2 \o <<" ", "i", "f", " ">> \o m.g1
             \o <<" ", "e", "l", "s", "e", " ">> \o subst_ifelse(m.g3) \o <<")">>

(***************************************************************************)
(* intexpr.Expression (lib/intexpr.py is not among the sources): the       *)
(* expression language of the specification, read from the string that     *)
(* parse_plural_expression builds, in which ! && || and ?: are spelled     *)
(* not, and, or and `true if cond else false`.                             *)
(***************************************************************************)
\* the largest representable integer
IntMax == 2147483647

Letters == {"a", "d", "e", "f", "i", "l", "n", "o", "r", "s", "t"}

RECURSIVE WordRun(_, _)
WordRun(s, p) ==
    IF At(s, p) \in Letters \cup Digits THEN 1 + WordRun(s, p + 1) ELSE 0

RECURSIVE NumVal(_, _, _, _)
\* the value of the decimal literal s[p..q], -1 when it is not representable
NumVal(s, p, q, acc) ==
    IF p > q THEN acc
    ELSE LET d == DigitVal(s[p])
         IN  IF acc > (IntMax - d) \div 10 THEN -1
             ELSE NumVal(s, p + 1, q, acc * 10 + d)

Tok(t, v) == [t |-> t, v |-> v]

Keyword(w) ==
    CASE w = <<"n">> -> "n"
      [] w = <<"n", "o", "t">> -> "not"
      [] w = <<"a", "n", "d">> -> "and"
      [] w = <<"o", "r">> -> "or"
      [] w = <<"i", "f">> -> "if"
      [] w = <<"e", "l", "s", "e">> -> "else"
      [] OTHER -> "bad"

RECURSIVE Lex(_, _)
\* the tokens of the string from position p on; "bad" stands for a
\* character sequence that is no token of the expression language
Lex(s, p) ==
    IF p > Len(s) THEN <<>>
    ELSE LET c == s[p]
             d == At(s, p + 1)
         IN  IF c \in {" ", TAB} THEN Lex(s, p + 1)
             ELSE IF c \in Digits THEN
                 LET k == DigitRun(s, p)
                 IN  IF At(s, p + k) \in Letters THEN <<Tok("bad", 0)>>
                     ELSE <<Tok("num", NumVal(s, p, p + k - 1, 0))>> \o Lex(s, p + k)
             ELSE IF c \in Letters THEN
                 LET k == WordRun(s, p)
                 IN  <<Tok(Keyword(Slice(s, p, p + k - 1)), 0)>> \o Lex(s, p + k)
             ELSE IF c \in {"=", "!"} /\ d = "=" THEN
                 <<Tok(IF c = "=" THEN "==" ELSE "!=", 0)>> \o Lex(s, p + 2)
             ELSE IF c \in {"<", ">"} /\ d = "=" THEN
                 <<Tok(IF c = "<" THEN "<=" ELSE ">=", 0)>> \o Lex(s, p + 2)
             ELSE IF c \in {"<", ">", "*", "/", "%", "+", "-", "(", ")"} THEN
                 <<Tok(c, 0)>> \o Lex(s, p + 1)
             ELSE <<Tok("bad", 0)>>

\* Results of reading (and evaluating at n) a part of the token sequence:
\* ok is FALSE for a syntax error; err names the arithmetic error of the
\* evaluation ("" for none); v is the value; pos is the next token.
Syn == [ok |-> FALSE, err |-> "", v |-> 0, pos |-> 0]
Val(v, pos) == [ok |-> TRUE, err |-> "", v |-> v, pos |-> pos]
Err(e, pos) == [ok |-> TRUE, err |-> e, v |-> 0, pos |-> pos]

Abs(x) == IF x < 0 THEN -x ELSE x
\* C division and remainder: the quotient is truncated towards zero
TruncDiv(x, y) ==
    IF (x >= 0) = (y > 0) THEN Abs(x) \div Abs(y) ELSE -(Abs(x) \div Abs(y))
Bool(b) == IF b THEN 1 ELSE 0

\* the value of `x op y`: Overflow when the result is not representable,
\* DivisionByZero for / and % by zero; comparisons give 0 or 1
Arith(op, x, y, pos) ==
    CASE op = "+" ->
            IF (y > 0 /\ x > IntMax - y) \/ (y < 0 /\ x < (-IntMax) - y)
            THEN Err("overflow", pos) ELSE Val(x + y, pos)
      [] op = "-" ->
            IF (y < 0 /\ x > IntMax + y) \/ (y > 0 /\ x < (-IntMax) + y)
            THEN Err("overflow", pos) ELSE Val(x - y, pos)
      [] op = "*" ->
            IF x = 0 \/ y = 0 THEN Val(0, pos)
            ELSE IF Abs(x) > IntMax \div Abs(y) THEN Err("overflow", pos)
            ELSE Val(x * y, pos)
      [] op = "/" ->
            IF y = 0 THEN Err("zerodiv", pos) ELSE Val(TruncDiv(x, y), pos)
      [] op = "%" ->
            IF y = 0 THEN Err("zerodiv", pos) ELSE Val(x - y * TruncDiv(x, y), pos)
      [] op = "==" -> Val(Bool(x = y), pos)
      [] op = "!=" -> Val(Bool(x # y), pos)
      [] op = "<" -> Val(Bool(x < y), pos)
      [] op = "<=" -> Val(Bool(x <= y), pos)
      [] op = ">" -> Val(Bool(x > y), pos)
      [] op = ">=" -> Val(Bool(x >= y), pos)

\* a binary operator applied to two results, the left operand first
BinOp(op, a, b) ==
    IF a.err # "" THEN Err(a.err, b.pos)
    ELSE IF b.err # "" THEN Err(b.err, b.pos)
    ELSE Arith(op, a.v, b.v, b.pos)

\* && and || evaluate their right operand only when the left one does not
\* decide the result
LogOp(op, a, b) ==
    IF a.err # "" THEN Err(a.err, b.pos)
    ELSE IF op = "and" /\ a.v = 0 THEN Val(0, b.pos)
    ELSE IF op = "or" /\ a.v # 0 THEN Val(1, b.pos)
    ELSE IF b.err # "" THEN Err(b.err, b.pos)
    ELSE Val(Bool(b.v # 0), b.pos)

TokAt(toks, pos) == IF pos >= 1 /\ pos <= Len(toks) THEN toks[pos].t ELSE "end"

\* the precedence of the binary operators, the loosest first; 0 for a
\* token that is no binary operator
Prec(t) ==
    CASE t = "or" -> 1
      [] t = "and" -> 2
      [] t \in {"==", "!="} -> 3
      [] t \in {"<", "<=", ">", ">="} -> 4
      [] t \in {"+", "-"} -> 5
      [] t \in {"*", "/", "%"} -> 6
      [] OTHER -> 0

\* an operator applied to the results of its operands
Apply(op, a, b) == IF op \in {"and", "or"} THEN LogOp(op, a, b) ELSE BinOp(op, a, b)

RECURSIVE Parse(_, _, _, _, _)
\* Reads, and evaluates at k, a part of the token sequence that starts at
\* token from.pos:
\*   "primary": a literal, n, a parenthesised expression, or ! applied to
\*              a primary
\*   "expr":    a primary followed by binary operators of precedence >= p,
\*              each level left-associative
\*   "rest":    the binary operators of precedence >= p and their operands
\*              that follow the operand whose result is `from`
\*   "test":    an expression, or the conditional `true if cond else
\*              false`; cond is evaluated first and only the branch it
\*              selects is evaluated
Parse(mode, toks, p, from, k) ==
    LET pos == from.pos
        t == TokAt(toks, pos)
    IN  CASE mode = "primary" ->
               CASE t = "not" ->
                       LET a == Parse("primary", toks, 0, Val(0, pos + 1), k)
                       IN  IF ~a.ok THEN Syn
                           ELSE IF a.err # "" THEN a
                           ELSE Val(Bool(a.v = 0), a.pos)
                 [] t = "num" ->
                       IF toks[pos].v < 0 THEN Err("overflow", pos + 1)
                       ELSE Val(toks[pos].v, pos + 1)
                 [] t = "n" -> Val(k, pos + 1)
                 [] t = "(" ->
                       LET e == Parse("test", toks, 0, Val(0, pos + 1), k)
                       IN  IF e.ok /\ TokAt(toks, e.pos) = ")"
                           THEN [e EXCEPT !.pos = e.pos + 1] ELSE Syn
                 [] OTHER -> Syn
          [] mode = "expr" ->
               LET a == Parse("primary", toks, 0, from, k)
               IN  IF ~a.ok THEN Syn ELSE Parse("rest", toks, p, a, k)
          [] mode = "rest" ->
               IF Prec(t) = 0 \/ Prec(t) < p THEN from
               ELSE LET b == Parse("expr", toks, Prec(t) + 1, Val(0, pos + 1), k)
                    IN  IF ~b.ok THEN Syn
                        ELSE Parse("rest", toks, p, Apply(t, from, b), k)
          [] mode = "test" ->
               LET a == Parse("expr", toks, 1, from, k)
                   c == Parse("expr", toks, 1, Val(0, a.pos + 1), k)
                   f == Parse("test", toks, 0, Val(0, c.pos + 1), k)
               IN  IF ~a.ok THEN Syn
                   ELSE IF TokAt(toks, a.pos) # "if" THEN a
                   ELSE IF ~c.ok \/ TokAt(toks, c.pos) # "else" THEN Syn
                   ELSE IF ~f.ok THEN Syn
                   ELSE IF c.err # "" THEN Err(c.err, f.pos)
                   ELSE IF c.v # 0 THEN [a EXCEPT !.pos = f.pos]
                   ELSE f

\* the whole token sequence read as one expression and evaluated at n
Read(toks, n) ==
    LET r == Parse("test", toks, 0, Val(0, 1), n)
    IN  IF r.ok /\ r.pos = Len(toks) + 1 THEN r ELSE Syn

\* Expression(s): the expression object (its tokens), or SyntaxError
Expression(s) ==
    LET toks == Lex(s, 1)
    IN  [SyntaxError |-> ~Read(toks, 0).ok, toks |-> toks]

\* Expression.__call__(n): the value, or the arithmetic error raised
Evaluate(expr, n) ==
    LET r == Read(expr, n) IN [err |-> r.err, v |-> r.v]

(***************************************************************************)
(* gettext.py: parse_plural_expression, parse_plural_forms                 *)
(***************************************************************************)
Raise(e) == [raised |-> e, n |-> 0, expr |-> <<>>]
Return(n, expr) == [raised |-> "", n |-> n, expr |-> expr]

RECURSIVE parse_plural_loop(_, _, _)
\* the token loop of parse_plural_expression from token k on: the stack it
\* ends with, or <<>> where it raises PluralExpressionSyntaxError
parse_plural_loop(tokens, k, stack) ==
    IF k > Len(tokens) THEN stack
    ELSE LET token == tokens[k]
             top == Len(stack)
         IN  IF token = Junk THEN <<>>
             ELSE IF token = <<"(">> THEN
                 parse_plural_loop(tokens, k + 1, Append(stack, <<>>))
             ELSE IF token = <<")">> THEN
                 IF top <= 1 THEN <<>>
                 ELSE LET s == subst_ifelse(stack[top])
                          rest == SubSeq(stack, 1, top - 1)
                      IN  parse_plural_loop(tokens, k + 1,
                              [rest EXCEPT ![top - 1] = @ \o <<"(">> \o s \o <<")">>])
             ELSE parse_plural_loop(tokens, k + 1, [stack EXCEPT ![top] = @ \o token])

parse_plural_expression(s) ==
    LET stack == parse_plural_loop(plural_exp_tokenize(s), 1, <<<<>>>>)
    IN  IF Len(stack) # 1 THEN Raise("PluralExpressionSyntaxError")
        ELSE LET fn == Expression(subst_ifelse(stack[1]))
             IN  IF fn.SyntaxError THEN Raise("PluralExpressionSyntaxError")
                 ELSE Return(0, fn.toks)

\* \s of the re module, on the characters that occur here
Whitespace == {" ", TAB, NL, "\r"}

RECURSIVE SkipWhitespace(_, _)
\* the position after the longest run of whitespace that starts at p (\s*)
SkipWhitespace(s, p) ==
    IF At(s, p) \in Whitespace THEN SkipWhitespace(s, p + 1) ELSE p

\* s holds the literal word at p
StartsWith(s, p, word) ==
    /\ p + Len(word) - 1 <= Len(s)
    /\ \A k \in 1..Len(word) : s[p + k - 1] = word[k]

S_nplurals == <<"n", "p", "l", "u", "r", "a", "l", "s", "=">>
S_plural == <<"p", "l", "u", "r", "a", "l", "=">>

NoMatch == [matched |-> FALSE, g1 |-> <<>>, g2 |-> <<>>]

\* the pattern with [0-9]+ for [1-9][0-9]*
parse_plural_forms_re_any_number(s) ==
    LET a == SkipWhitespace(s, 1)
        b == a + Len(S_nplurals)
        c == b + DigitRun(s, b)
        d == SkipWhitespace(s, c + 1)
        e == d + Len(S_plural)
        f == FirstIndex(s, ";", e)
        g == IF f = 0 THEN Len(s) + 1 ELSE f
    IN  IF /\ StartsWith(s, a, S_nplurals)
           /\ c > b
           /\ At(s, c) = ";"
           /\ StartsWith(s, d, S_plural)
           /\ g > e
           /\ SkipWhitespace(s, g + 1) > Len(s)
        THEN [matched |-> TRUE, g1 |-> Slice(s, b, c - 1), g2 |-> Slice(s, e, g - 1)]
        ELSE [matched |-> FALSE, g1 |-> <<>>, g2 |-> <<>>]

\* _parse_plural_forms:
\*   ^\s*nplurals=([1-9][0-9]*);\s*plural=([^;]+);?\s*$
\* Each step of the match is forced: a greedy \s* or [0-9]* is followed by
\* a character outside its class, and [^;]+ runs to the first `;' or to the
\* end of the string.
parse_plural_forms_re(s) ==
    LET a == SkipWhitespace(s, 1)
        b == a + Len(S_nplurals)
        c == b + DigitRun(s, b)
        d == SkipWhitespace(s, c + 1)
        e == d + Len(S_plural)
        f == FirstIndex(s, ";", e)
        g == IF f = 0 THEN Len(s) + 1 ELSE f
    IN  IF /\ StartsWith(s, a, S_nplurals)
           /\ c > b /\ s[b] # "0"
           /\ At(s, c) = ";"
           /\ StartsWith(s, d, S_plural)
           /\ g > e
           /\ SkipWhitespace(s, g + 1) > Len(s)
        THEN [matched |-> TRUE, g1 |-> Slice(s, b, c - 1), g2 |-> Slice(s, e, g - 1)]
        ELSE NoMatch

\* int(s, 10)
int(s) == NumVal(s, 1, Len(s), 0)

parse_plural_forms(s) ==
    LET match == parse_plural_forms_re(s)
    IN  IF ~match.matched THEN Raise("PluralFormsSyntaxError")
        ELSE LET n == int(match.g1)
                 expr == parse_plural_expression(match.g2)
             IN  IF expr.raised # "" THEN expr ELSE Return(n, expr.expr)

\* class PluralExpressionSyntaxError(PluralFormsSyntaxError): what an
\* `except PluralFormsSyntaxError` clause catches
PluralFormsSyntaxError == {"PluralFormsSyntaxError", "PluralExpressionSyntaxError"}

(***************************************************************************)
(* check/__init__.py: Checker.check_plurals                                *)
(***************************************************************************)
VARIABLES
    \* the catalog the checker is given: ctx.metadata['Plural-Forms'],
    \* ctx.language.get_plural_forms(), ctx.file and ctx.is_template
    metadata, correct_plural_forms, file, is_template,
    \* ctx.plural_preimage and the findings reported through self.tag
    ctx_plural_preimage, tags,
    \* the locals of check_plurals
    plural_forms, plural_forms_hint, has_plurals, n, expr,
    locally_correct_n, locally_correct_expr,
    plural_preimage, unusual_plural_forms, i, codomain, uncov_rngs, period,
    \* the sample points expr was called on, in the order of the calls, and
    \* those locally_correct_expr was called on
    calls, locally_correct_calls,
    \* where check_plurals is, and the exception that left it
    pc, exception

ctx_vars == <<metadata, correct_plural_forms, file, is_template>>
local_vars == <<plural_forms, plural_forms_hint, has_plurals, n, expr,
                locally_correct_n, locally_correct_expr,
                plural_preimage, unusual_plural_forms, i, codomain, uncov_rngs, period>>
plural_vars == <<ctx_vars, ctx_plural_preimage, tags, local_vars, calls,
                 locally_correct_calls, pc, exception>>

\* None and a value that is not None
None == <<>>
Some(x) == <<x>>

codomain_limit == 200

\* a finding: the tag name, the kind of message, the numbers and the
\* strings it is given
Tag(name, msg, args, text) == [name |-> name, msg |-> msg, args |-> args, text |-> text]

\* the plain tag name for every catalog
Variant_plain(hp, used, unused) == used

\* the tag name for a catalog with or without plural messages
Variant(hp, used, unused) == IF hp THEN used ELSE unused

SetToSeq(S) ==
    CHOOSE f \in [1..Cardinality(S) -> S] : \A a, b \in 1..Cardinality(S) : a # b => f[a] # f[b]

Range(f) == {f[k] : k \in DOMAIN f}

RECURSIVE messages_loop(_, _, _)
\* `for message in ctx.file` (lines 379-388) from message k on: has_plurals
\* and the keys of expected_nplurals
messages_loop(k, hp, expected) ==
    IF k > Len(file) THEN [has_plurals |-> hp, expected_nplurals |-> expected]
    ELSE LET message == file[k]
         IN  IF message.obsolete THEN messages_loop(k + 1, hp, expected)
             ELSE IF message.msgid_plural THEN
                 IF ~message.translated THEN messages_loop(k + 1, TRUE, expected)
                 ELSE LET e == expected \cup {message.msgstr_plural}
                      IN  IF Cardinality(e) > 1
                          THEN [has_plurals |-> TRUE, expected_nplurals |-> e]
                          ELSE messages_loop(k + 1, TRUE, e)
             ELSE messages_loop(k + 1, hp, expected)

HintTemplate == <<"n", "p", "l", "u", "r", "a", "l", "s", "=", "I", "N", "T", "E", "G", "E", "R", ";", " ", "p", "l", "u", "r", "a", "l", "=", "E", "X", "P", "R", "E", "S", "S", "I", "O", "N", ";">>
HintDefault == <<"n", "p", "l", "u", "r", "a", "l", "s", "=", "<", "n", ">", ";", " ", "p", "l", "u", "r", "a", "l", "=", "<", "e", "x", "p", "r", "e", "s", "s", "i", "o", "n", ">">>

\* lines 394-402: the hint of the findings about the header field
hint_of(template, forms) ==
    IF template THEN <<HintTemplate>>
    ELSE IF forms # None /\ forms[1] # <<>> THEN forms[1]
    ELSE <<HintDefault>>

\* what check_plurals has done when it reaches line 445 or returns before
HeadResult(returns, tt, pf, hint, hp, pn, pe, lc) ==
    [returns |-> returns, tags |-> tt, plural_forms |-> pf, hint |-> hint,
     has_plurals |-> hp, n |-> pn, expr |-> pe,
     locally_correct_n |-> IF lc = None THEN None ELSE Some(lc[1].n),
     locally_correct_expr |-> IF lc = None THEN None ELSE Some(lc[1].expr)]

\* lines 424-430 for every number of msgstr items that is not n
incorrect_number_any(pn, expected) ==
    IF expected \ {pn} # {}
    THEN <<Tag("incorrect-number-of-plural-forms", "",
               <<pn, CHOOSE e \in expected \ {pn} : TRUE>>, <<>>)>>
    ELSE <<>>

\* lines 424-430: the declared number against the only number of msgstr
\* items of the translated messages
incorrect_number(pn, expected) ==
    IF Cardinality(expected) = 1 /\ pn # (CHOOSE e \in expected : TRUE)
    THEN <<Tag("incorrect-number-of-plural-forms", "",
               <<pn, CHOOSE e \in expected : TRUE>>, <<>>)>>
    ELSE <<>>

\* lines 424-444, after a successful parse: the number of plural forms
\* against the messages, and the forms known for the language (correct
\* holds the parsed forms; the language data is taken to be well-formed)
head_parsed(t12, pf, hint, hp, expected, parsed, forms, correct) ==
    LET t3 == incorrect_number(parsed.n, expected)
        locally == {k \in DOMAIN correct : correct[k].n = parsed.n}
        t4 == IF forms # None /\ locally = {}
              THEN <<Tag(Variant(hp, "unusual-plural-forms", "unusual-unused-plural-forms"),
                         "", <<>>, <<pf[1]>> \o hint)>>
              ELSE <<>>
    IN  HeadResult(FALSE, t12 \o t3 \o t4, pf, hint, hp, parsed.n, parsed.expr,
             IF Cardinality(locally) = 1 THEN Some(correct[CHOOSE k \in locally : TRUE])
             ELSE None)

\* lines 389-444, for a header with at most one distinct Plural-Forms
\* value pf
head_single(t1, pf, hint, hp, expected, template, parsed, forms, correct) ==
    LET t2 == IF Cardinality(expected) > 1
              THEN <<Tag("inconsistent-number-of-plural-forms", "", SetToSeq(expected), <<>>)>>
              ELSE <<>>
    IN  IF pf = None THEN
            HeadResult(TRUE,
                 t1 \o t2 \o
                 (IF ~hp THEN <<>>
                  ELSE <<Tag(IF expected # {} THEN "no-required-plural-forms-header-field"
                             ELSE "no-plural-forms-header-field", "", <<>>, hint)>>),
                 pf, hint, hp, 0, <<>>, None)
        ELSE IF template THEN HeadResult(TRUE, t1 \o t2, pf, hint, hp, 0, <<>>, None)
        ELSE IF parsed.raised \in PluralFormsSyntaxError THEN
            HeadResult(TRUE,
                 t1 \o t2 \o
                 <<Tag(Variant(hp, "syntax-error-in-plural-forms",
                               "syntax-error-in-unused-plural-forms"),
                       "", <<>>, <<pf[1]>> \o hint)>>,
                 pf, hint, hp, 0, <<>>, None)
        ELSE head_parsed(t1 \o t2, pf, hint, hp, expected, parsed, forms, correct)

\* lines 362-373 without line 366: every repeated field is a conflict
head_fields_no_set(fields, distinct, loop, forms, template) ==
    IF Len(fields) > 1
    THEN HeadResult(TRUE, <<Tag("duplicate-header-field-plural-forms", "", <<>>, <<>>)>>,
                    None, <<>>, FALSE, 0, <<>>, None)
    ELSE head_single(
             <<>>,
             IF distinct = {} THEN None ELSE Some(CHOOSE h \in distinct : TRUE),
             hint_of(template, forms), loop.has_plurals, loop.expected_nplurals,
             template,
             parse_plural_forms(IF distinct = {} THEN <<>> ELSE CHOOSE h \in distinct : TRUE),
             forms,
             IF forms = None \/ template \/ distinct = {} THEN <<>>
             ELSE [k \in DOMAIN forms[1] |-> parse_plural_forms(forms[1][k])])

\* lines 362-373: the Plural-Forms fields of the header; `distinct` is
\* set(plural_forms), loop the result of the loop over the messages
head_fields(fields, distinct, loop, forms, template) ==
    LET t1 == IF Len(fields) > 1
              THEN <<Tag("duplicate-header-field-plural-forms", "", <<>>, <<>>)>>
              ELSE <<>>
    IN  IF Cardinality(distinct) > 1 THEN HeadResult(TRUE, t1, None, <<>>, FALSE, 0, <<>>, None)
        ELSE head_single(
                 t1,
                 IF distinct = {} THEN None ELSE Some(CHOOSE h \in distinct : TRUE),
                 hint_of(template, forms), loop.has_plurals, loop.expected_nplurals,
                 template,
                 parse_plural_forms(IF distinct = {} THEN <<>> ELSE CHOOSE h \in distinct : TRUE),
                 forms,
                 IF forms = None \/ template \/ distinct = {} THEN <<>>
                 ELSE [k \in DOMAIN forms[1] |-> parse_plural_forms(forms[1][k])])

\* lines 362-444 of check_plurals: the findings in order, whether the
\* method returns there, and the locals the rest of it reads
check_plurals_head ==
    head_fields(metadata, Range(metadata), messages_loop(1, FALSE, {}),
                correct_plural_forms, is_template)

\* the empty dict
EmptyMap == [k \in {} |-> <<>>]

\* plural_preimage[fi] = [i] + plural_preimage[fi]
preimage_add_front(pre, fi, k) ==
    IF fi \in DOMAIN pre THEN [pre EXCEPT ![fi] = <<k>> \o @]
    ELSE pre @@ (fi :> <<k>>)

\* plural_preimage[fi] += [i] on a defaultdict(list)
preimage_add(pre, fi, k) ==
    IF fi \in DOMAIN pre THEN [pre EXCEPT ![fi] = Append(@, k)]
    ELSE pre @@ (fi :> <<k>>)

\* the locals as the first part of check_plurals leaves them
begin_locals(h) ==
    /\ tags' = tags \o h.tags
    /\ plural_forms' = h.plural_forms
    /\ plural_forms_hint' = h.hint
    /\ has_plurals' = h.has_plurals
    /\ n' = h.n
    /\ expr' = h.expr
    /\ locally_correct_n' = h.locally_correct_n
    /\ locally_correct_expr' = h.locally_correct_expr
    /\ pc' = IF h.returns THEN "done" ELSE "sample"

\* lines 361-446: the header field, the messages, the hint, the parse
check_plurals_begin ==
    /\ pc = "start"
    /\ begin_locals(check_plurals_head)
    /\ ctx_plural_preimage' = None
    /\ plural_preimage' = EmptyMap
    /\ unusual_plural_forms' = FALSE
    /\ i' = 0
    /\ UNCHANGED <<ctx_vars, codomain, uncov_rngs, period, calls, locally_correct_calls,
                   exception>>

\* the handlers naming the sample point after the failing one
arithmetic_error_next(err, k, hp) ==
    Tag(Variant(hp, "arithmetic-error-in-plural-forms",
                "arithmetic-error-in-unused-plural-forms"),
        IF err = "overflow" THEN "f({}): integer overflow" ELSE "f({}): division by zero",
        <<k + 1>>, <<>>)

\* the handlers of OverflowError and ZeroDivisionError (lines 467-478)
arithmetic_error(err, k, hp) ==
    Tag(Variant(hp, "arithmetic-error-in-plural-forms",
                "arithmetic-error-in-unused-plural-forms"),
        IF err = "overflow" THEN "f({}): integer overflow" ELSE "f({}): division by zero",
        <<k>>, <<>>)

\* the finding of lines 452-456
codomain_error_at(k, fi, pn, hp) ==
    Tag(Variant(hp, "codomain-error-in-plural-forms",
                "codomain-error-in-unused-plural-forms"),
        "f({}) = {} >= {}", <<k, fi, pn>>, <<>>)

\* line 451 with > for >=
exceeds_strictly(fi, pn) == fi > pn

\* line 451: the value is no index of a plural form
exceeds(fi, pn) == fi >= pn

\* line 459 without the test of unusual_plural_forms
differs_anywhere(compare, fi, lcv, reported) == compare /\ fi # lcv

\* line 459: the value is not that of the locally correct expression, and
\* no finding was reported for that yet
differs(compare, fi, lcv, reported) == compare /\ fi # lcv /\ ~reported

\* the body of the loop at sample point i: r is expr(i); lc is
\* locally_correct_expr(i), called when compare holds
sample_body(r, compare, lc) ==
    IF r.err # "" THEN
        /\ tags' = Append(tags, arithmetic_error(r.err, i, has_plurals))
        /\ pc' = "codomain"
        /\ UNCHANGED <<plural_preimage, unusual_plural_forms, i, locally_correct_calls>>
    ELSE IF exceeds(r.v, n) THEN
        /\ tags' = Append(tags, codomain_error_at(i, r.v, n, has_plurals))
        /\ pc' = "codomain"
        /\ UNCHANGED <<plural_preimage, unusual_plural_forms, i, locally_correct_calls>>
    ELSE IF compare /\ lc.err # "" THEN
        /\ plural_preimage' = preimage_add(plural_preimage, r.v, i)
        /\ locally_correct_calls' = Append(locally_correct_calls, i)
        /\ tags' = Append(tags, arithmetic_error(lc.err, i, has_plurals))
        /\ pc' = "codomain"
        /\ UNCHANGED <<unusual_plural_forms, i>>
    ELSE
        /\ plural_preimage' = preimage_add(plural_preimage, r.v, i)
        /\ locally_correct_calls' = IF compare THEN Append(locally_correct_calls, i)
                                    ELSE locally_correct_calls
        /\ IF differs(compare, r.v, lc.v, unusual_plural_forms) THEN
               /\ tags' = Append(tags,
                     Tag(Variant(has_plurals, "unusual-plural-forms",
                                 "unusual-unused-plural-forms"),
                         "", <<>>, <<plural_forms[1]>> \o plural_forms_hint))
               /\ unusual_plural_forms' = TRUE
           ELSE UNCHANGED <<tags, unusual_plural_forms>>
        /\ i' = i + 1
        /\ pc' = "sample"

\* range(codomain_limit) with one more number
in_range_and_limit(k) == k <= codomain_limit

\* line 449: k is in range(codomain_limit)
in_range(k) == k < codomain_limit

\* one iteration of `for i in range(codomain_limit)` (lines 449-464) with
\* the exception handlers that end it (lines 467-478)
sample_step ==
    /\ pc = "sample"
    /\ in_range(i)
    /\ sample_body(Evaluate(expr, i),
                   locally_correct_n # None /\ n = locally_correct_n[1],
                   Evaluate(IF locally_correct_expr = None THEN <<>>
                            ELSE locally_correct_expr[1], i))
    /\ calls' = Append(calls, i)
    /\ UNCHANGED <<ctx_vars, ctx_plural_preimage, plural_forms, plural_forms_hint,
                   has_plurals, n, expr, locally_correct_n, locally_correct_expr,
                   codomain, uncov_rngs, period, exception>>

\* the map stored wherever the loop stands, not in its else clause
sample_else_anywhere ==
    /\ pc = "sample"
    /\ ctx_plural_preimage' = Some(plural_preimage)
    /\ pc' = "codomain"
    /\ UNCHANGED <<ctx_vars, tags, local_vars, calls, locally_correct_calls, exception>>

\* the else clause of the loop (lines 465-466): the loop ran to its end
sample_else ==
    /\ pc = "sample"
    /\ i = codomain_limit
    /\ ctx_plural_preimage' = Some(plural_preimage)
    /\ pc' = "codomain"
    /\ UNCHANGED <<ctx_vars, tags, local_vars, calls, locally_correct_calls, exception>>

\* range(a, b)
range(a, b) == <<a, b>>
InRange(rng) == rng[1]..(rng[2] - 1)

\* the results of the expression at the sample points
SampleResults(e) == [k \in 0..(codomain_limit - 1) |-> Evaluate(e, k)]

\* the values among them (0 when every sample point raises)
SampleValues(rs) ==
    {0 : k \in {j \in DOMAIN rs : \A m \in DOMAIN rs : rs[m].err # ""}}
    \cup {rs[k].v : k \in {j \in DOMAIN rs : rs[j].err = ""}}

Min(S) == CHOOSE x \in S : \A y \in S : x <= y
Max(S) == CHOOSE x \in S : \A y \in S : x >= y

Bounds(lo, hi) ==
    {None} \cup {Some(<<x, y>>) : x \in {lo, IF lo > 0 THEN 0 ELSE lo}, y \in {hi, hi + 1}}

ValueBounds(vals) == Bounds(Min(vals), Max(vals))

\* What expr.codomain() may return: None, or a pair (x, y) that bounds the
\* values of the expression, exactly or loosely.
CodomainResults(e) == ValueBounds(SampleValues(SampleResults(e)))

\* lines 479-486: the statically uncovered ranges; uncov_rngs is assigned
\* only when codomain() returned a pair
static_ranges(cd, pn) ==
    IF cd = None THEN None
    ELSE LET x == cd[1][1]
             y == cd[1][2]
         IN  Some((IF x > 0 THEN <<range(0, x)>> ELSE <<>>)
                  \o (IF y + 1 < pn THEN <<range(y + 1, pn)>> ELSE <<>>))

static_analysis ==
    /\ pc = "codomain"
    /\ \E cd \in CodomainResults(expr) :
          /\ codomain' = cd
          /\ uncov_rngs' = static_ranges(cd, n)
    /\ pc' = "period"
    /\ UNCHANGED <<ctx_vars, ctx_plural_preimage, tags, plural_forms, plural_forms_hint,
                   has_plurals, n, expr, locally_correct_n, locally_correct_expr,
                   plural_preimage, unusual_plural_forms, i, period, calls,
                   locally_correct_calls, exception>>

RECURSIVE SortedSeq(_)
\* sorted(S)
SortedSeq(S) == IF S = {} THEN <<>> ELSE <<Min(S)>> \o SortedSeq(S \ {Min(S)})

RECURSIVE neighbour_scan(_, _, _, _)
\* `for i in sorted(ctx.plural_preimage)` (lines 492-498) from key k on
neighbour_scan(keys, k, present, pn) ==
    IF k > Len(keys) THEN <<>>
    ELSE LET j == keys[k]
         IN  IF j > 0 /\ (j - 1) \notin present THEN <<range(j - 1, j)>>
             ELSE IF j + 1 < pn /\ (j + 1) \notin present THEN <<range(j + 1, j + 2)>>
             ELSE neighbour_scan(keys, k + 1, present, pn)

\* the (offset, length) pairs tried as results of expr.period()
PeriodCandidates ==
    {<<0, 1>>, <<1, 1>>, <<2, 1>>, <<0, 2>>, <<0, 10>>, <<100, 99>>, <<0, 200>>}

Periodic(rs, c) ==
    \A k \in c[1]..(codomain_limit - 1 - c[2]) : rs[k] = rs[k + c[2]]

PeriodsOf(rs) == {None} \cup {Some(q) : q \in {c \in PeriodCandidates : Periodic(rs, c)}}

\* What expr.period() may return: None, or (offset, length) such that the
\* expression takes the same value at i and i + length for i >= offset.
PeriodResults(e) == PeriodsOf(SampleResults(e))

\* 1e999, the float infinity: above every sum of an offset and a length
Infinity == 1000000000

\* lines 489-490: `if period is None: period = (0, 1e999)`
period_or_default(q) == IF q = None THEN <<0, Infinity>> ELSE q[1]

\* line 491 with the default period read as (0, 1)
below_limit_or_default(q) ==
    IF q[2] = Infinity THEN q[1] + 1 < codomain_limit ELSE q[1] + q[2] < codomain_limit

\* line 491: sum(period) < codomain_limit
below_limit(q) == q[1] + q[2] < codomain_limit

\* lines 487-498: reading uncov_rngs raises UnboundLocalError when line 482
\* did not run; else the neighbour scan, for a period below the limit
period_scan ==
    /\ pc = "period"
    /\ IF uncov_rngs = None THEN
           /\ pc' = "raised"
           /\ exception' = "UnboundLocalError"
           /\ UNCHANGED <<uncov_rngs, period>>
       ELSE IF uncov_rngs[1] = <<>> /\ ctx_plural_preimage # None THEN
           /\ \E q \in PeriodResults(expr) :
                 /\ period' = Some(period_or_default(q))
                 /\ uncov_rngs' =
                     IF below_limit(period_or_default(q))
                     THEN Some(neighbour_scan(SortedSeq(DOMAIN ctx_plural_preimage[1]), 1,
                                              DOMAIN ctx_plural_preimage[1], n))
                     ELSE uncov_rngs
           /\ pc' = "report"
           /\ UNCHANGED exception
       ELSE
           /\ pc' = "report"
           /\ UNCHANGED <<uncov_rngs, period, exception>>
    /\ UNCHANGED <<ctx_vars, ctx_plural_preimage, tags, plural_forms, plural_forms_hint,
                   has_plurals, n, expr, locally_correct_n, locally_correct_expr,
                   plural_preimage, unusual_plural_forms, i, codomain, calls,
                   locally_correct_calls>>

\* the finding of lines 500-505
codomain_error_range(rng, hp) ==
    Tag(Variant(hp, "codomain-error-in-plural-forms",
                "codomain-error-in-unused-plural-forms"),
        "f(x) != {}", rng, <<>>)

\* lines 499-505 without line 506: the preimage map is kept
report_ranges_keep ==
    /\ pc = "report"
    /\ tags' = tags \o [k \in DOMAIN uncov_rngs[1] |->
                            codomain_error_range(uncov_rngs[1][k], has_plurals)]
    /\ pc' = "done"
    /\ UNCHANGED <<ctx_vars, ctx_plural_preimage, local_vars, calls, locally_correct_calls, exception>>

\* lines 499-506: one finding for each uncovered range, and the preimage
\* map is dropped
report_ranges ==
    /\ pc = "report"
    /\ tags' = tags \o [k \in DOMAIN uncov_rngs[1] |->
                            codomain_error_range(uncov_rngs[1][k], has_plurals)]
    /\ ctx_plural_preimage' = IF uncov_rngs[1] # <<>> THEN None ELSE ctx_plural_preimage
    /\ pc' = "done"
    /\ UNCHANGED <<ctx_vars, local_vars, calls, locally_correct_calls, exception>>

(***************************************************************************)
(* The catalogs check_plurals is run on                                    *)
(***************************************************************************)
\* nplurals=2; plural=n != 1;
PF_n_ne_1 ==
    <<"n", "p", "l", "u", "r", "a", "l", "s", "=", "2", ";", " ", "p", "l", "u", "r", "a", "l", "=", "n", " ", "!", "=", " ", "1", ";">>
\* nplurals=1; plural=n;
PF_n ==
    <<"n", "p", "l", "u", "r", "a", "l", "s", "=", "1", ";", " ", "p", "l", "u", "r", "a", "l", "=", "n", ";">>
\* nplurals=2; plural=n/0;
PF_div_0 ==
    <<"n", "p", "l", "u", "r", "a", "l", "s", "=", "2", ";", " ", "p", "l", "u", "r", "a", "l", "=", "n", "/", "0", ";">>
\* nplurals=3; plural=n==0?0:n==1?1:2;
PF_chain ==
    <<"n", "p", "l", "u", "r", "a", "l", "s", "=", "3", ";", " ", "p", "l", "u", "r", "a", "l", "=", "n", "=", "=", "0", "?", "0", ":", "n", "=", "=", "1", "?", "1", ":", "2", ";">>
\* nplurals=2; plural=n>1
PF_n_gt_1 ==
    <<"n", "p", "l", "u", "r", "a", "l", "s", "=", "2", ";", " ", "p", "l", "u", "r", "a", "l", "=", "n", ">", "1">>
\* nplurals=3; plural=n != 1;
PF_three_ne ==
    <<"n", "p", "l", "u", "r", "a", "l", "s", "=", "3", ";", " ", "p", "l", "u", "r", "a", "l", "=", "n", " ", "!", "=", " ", "1", ";">>
\* nplurals=11; plural=10/(5-n);
PF_div_late ==
    <<"n", "p", "l", "u", "r", "a", "l", "s", "=", "1", "1", ";", " ", "p", "l", "u", "r", "a", "l", "=", "1", "0", "/", "(", "5", "-", "n", ")", ";">>
\* nplurals=2; plural=n*n*n*n*n > 1;
PF_overflow ==
    <<"n", "p", "l", "u", "r", "a", "l", "s", "=", "2", ";", " ", "p", "l", "u", "r", "a", "l", "=", "n", "*", "n", "*", "n", "*", "n", "*", "n", " ", ">", " ", "1", ";">>
\* nplurals=1; plural=2;
PF_const ==
    <<"n", "p", "l", "u", "r", "a", "l", "s", "=", "1", ";", " ", "p", "l", "u", "r", "a", "l", "=", "2", ";">>
\* nplurals=3; plural=n%2==0 ? 0 : 2;
PF_gap ==
    <<"n", "p", "l", "u", "r", "a", "l", "s", "=", "3", ";", " ", "p", "l", "u", "r", "a", "l", "=", "n", "%", "2", "=", "=", "0", " ", "?", " ", "0", " ", ":", " ", "2", ";">>
\* nplurals=3; plural=n%2 + 1;
PF_plus ==
    <<"n", "p", "l", "u", "r", "a", "l", "s", "=", "3", ";", " ", "p", "l", "u", "r", "a", "l", "=", "n", "%", "2", " ", "+", " ", "1", ";">>
\* nplurals=2; plural=n?;
PF_syntax ==
    <<"n", "p", "l", "u", "r", "a", "l", "s", "=", "2", ";", " ", "p", "l", "u", "r", "a", "l", "=", "n", "?", ";">>
\* nplurals=2 plural=n;
PF_shape ==
    <<"n", "p", "l", "u", "r", "a", "l", "s", "=", "2", " ", "p", "l", "u", "r", "a", "l", "=", "n", ";">>

PluralFormsCorpus ==
    {PF_n_ne_1, PF_n, PF_div_0, PF_chain, PF_n_gt_1, PF_three_ne, PF_div_late,
     PF_overflow, PF_const, PF_gap, PF_plus, PF_syntax, PF_shape}

\* the largest number of Plural-Forms fields in a header
MaxHeaders == 2
\* the largest number of messages in a catalog
MaxMessages == 2

Message(obsolete, plural, translated, slots) ==
    [obsolete |-> obsolete, msgid_plural |-> plural, translated |-> translated,
     msgstr_plural |-> slots]

\* a message without a plural form; an untranslated plural message;
\* translated ones with two and three msgstr items; an obsolete one
Messages ==
    {Message(FALSE, FALSE, TRUE, 0), Message(FALSE, TRUE, FALSE, 2),
     Message(FALSE, TRUE, TRUE, 2), Message(FALSE, TRUE, TRUE, 3),
     Message(TRUE, TRUE, TRUE, 3)}

SeqsUpTo(S, m) == UNION {[1..k -> S] : k \in 0..m}

\* what ctx.language.get_plural_forms() gives: nothing, or the language's
\* known forms
Languages == {None, Some(<<PF_n_ne_1>>), Some(<<PF_n_ne_1, PF_n_gt_1>>), Some(<<PF_chain>>)}

\* The catalogs: every header over the corpus with a few message lists,
\* every message list with a few headers, and every language with a few
\* headers.
Catalogs ==
    (SeqsUpTo(PluralFormsCorpus, MaxHeaders)
        \X {<<>>, <<Message(FALSE, TRUE, TRUE, 2)>>}
        \X {None, Some(<<PF_n_ne_1>>)} \X BOOLEAN)
    \cup
    ({<<PF_n_ne_1>>, <<PF_three_ne>>, <<PF_syntax>>}
        \X SeqsUpTo(Messages, MaxMessages) \X {None} \X BOOLEAN)
    \cup
    ({<<PF_n_gt_1>>, <<PF_three_ne>>, <<PF_chain>>}
        \X {<<>>, <<Message(FALSE, TRUE, TRUE, 2)>>} \X Languages \X {FALSE})

PluralInit ==
    /\ \E c \in Catalogs :
          /\ metadata = c[1]
          /\ file = c[2]
          /\ correct_plural_forms = c[3]
          /\ is_template = c[4]
    /\ ctx_plural_preimage = None
    /\ tags = <<>>
    /\ plural_forms = None
    /\ plural_forms_hint = <<>>
    /\ has_plurals = FALSE
    /\ n = 0
    /\ expr = <<>>
    /\ locally_correct_n = None
    /\ locally_correct_expr = None
    /\ plural_preimage = EmptyMap
    /\ unusual_plural_forms = FALSE
    /\ i = 0
    /\ codomain = None
    /\ calls = <<>>
    /\ locally_correct_calls = <<>>
    /\ uncov_rngs = None
    /\ period = None
    /\ pc = "start"
    /\ exception = ""

(***************************************************************************)
(* The parser run on its own: parse_plural_expression and                  *)
(* parse_plural_forms applied to a string, and the expression they return  *)
(* called on a number                                                      *)
(***************************************************************************)
VARIABLES
    \* the string the parser is given, with the way it was put together
    parse_input,
    \* what the call returned or raised
    parse_result,
    \* the last call of the returned expression: its argument and its result
    call_n, call_result,
    \* "ready", "parsed" or "called"
    parse_pc

parse_vars == <<parse_input, parse_result, call_n, call_result, parse_pc>>

\* the longest string of the exhaustive inputs
MaxLen == 3
\* the most conditions in a chain of conditionals
MaxChain == 2
\* the largest number an expression is called on
MaxSample == 3

ExprAlphabet == {"n", "1", "(", ")", "?", ":", "!", "=", " ", NL, "$"}

A_n_eq_0 == <<"n", "=", "=", "0">>
A_n_eq_1 == <<"n", "=", "=", "1">>
A_n_gt_1 == <<"n", ">", "1">>
A_paren == <<"(", "n", "?", "0", ":", "1", ")">>
A_0 == <<"0">>
A_1 == <<"1">>
A_2 == <<"2">>

CondAtoms == {A_n_eq_0, A_n_eq_1, A_n_gt_1, A_paren}
ValueAtoms == {A_0, A_1, A_2}

\* the value of an atom at k, by the meaning of its text
AtomValue(atom, k) ==
    CASE atom = A_n_eq_0 -> Bool(k = 0)
      [] atom = A_n_eq_1 -> Bool(k = 1)
      [] atom = A_n_gt_1 -> Bool(k > 1)
      [] atom = A_paren -> IF k # 0 THEN 0 ELSE 1
      [] atom = A_0 -> 0
      [] atom = A_1 -> 1
      [] atom = A_2 -> 2

RECURSIVE Chain(_, _, _)
\* c1 ? v1 : c2 ? v2 : ... : v, with sp around each ? and :
Chain(conds, vals, sp) ==
    IF conds = <<>> THEN vals[1]
    ELSE conds[1] \o sp \o <<"?">> \o sp \o vals[1] \o sp \o <<":">> \o sp
         \o Chain(Tail(conds), Tail(vals), sp)

RECURSIVE ChainValue(_, _, _)
\* the value at k of the chain read as c1 ? v1 : (c2 ? v2 : (...))
ChainValue(conds, vals, k) ==
    IF conds = <<>> THEN AtomValue(vals[1], k)
    ELSE IF AtomValue(conds[1], k) # 0 THEN AtomValue(vals[1], k)
    ELSE ChainValue(Tail(conds), Tail(vals), k)

Input(kind, conds, vals, text) ==
    [kind |-> kind, conds |-> conds, vals |-> vals, text |-> text]

Spacings == {<<>>, <<" ">>}

TextInputs == {Input("text", <<>>, <<>>, s) : s \in SeqsUpTo(ExprAlphabet, MaxLen)}

ChainsOf(k) ==
    {Input("chain", c[1], c[2], Chain(c[1], c[2], c[3])) :
        c \in [1..k -> CondAtoms] \X [1..(k + 1) -> ValueAtoms] \X Spacings}

ChainInputs == UNION {ChainsOf(k) : k \in 1..MaxChain}

\* a ? b ? c : d : e, the conditional b ? c : d in the true branch of a:
\* conds is <<a, b>> and vals is <<c, d, e>>
NestedInputs ==
    {Input("nested", c[1], c[2],
           c[1][1] \o c[3] \o <<"?">> \o c[3] \o Chain(<<c[1][2]>>, <<c[2][1], c[2][2]>>, c[3])
           \o c[3] \o <<":">> \o c[3] \o c[2][3]) :
        c \in [1..2 -> CondAtoms] \X [1..3 -> ValueAtoms] \X Spacings}

\* the value at k of a ? (b ? c : d) : e
NestedValue(conds, vals, k) ==
    IF AtomValue(conds[1], k) # 0
    THEN ChainValue(<<conds[2]>>, <<vals[1], vals[2]>>, k)
    ELSE AtomValue(vals[3], k)

\* the parts a Plural-Forms value is put together from, well-formed and not
FormsLead ==
    {<<>>,
     <<" ">>,
     <<"x">>}
FormsKeyword1 ==
    {<<"n", "p", "l", "u", "r", "a", "l", "s", "=">>,
     <<"n", "p", "l", "u", "r", "a", "l", "=">>}
FormsNumber ==
    {<<"1">>,
     <<"2">>,
     <<"1", "0">>,
     <<"0">>,
     <<"0", "2">>,
     <<>>}
FormsSeparator ==
    {<<";">>,
     <<";", " ">>,
     <<>>,
     <<";", "\n">>}
FormsKeyword2 ==
    {<<"p", "l", "u", "r", "a", "l", "=">>,
     <<"p", "l", "u", "r", "a", "l", "s", "=">>}
FormsExpr ==
    {<<"n">>,
     <<"n", " ", "!", "=", " ", "1">>,
     <<"n", ">", "1", "?", "1", ":", "0">>,
     <<>>,
     <<"n", "?">>,
     <<"n", ";", "n">>,
     <<"n", "\r">>,
     <<"n", " ">>}
FormsTail ==
    {<<>>,
     <<";">>,
     <<";", " ">>,
     <<";", ";">>,
     <<";", "x">>,
     <<"\n">>}

FormsInputs ==
    {Input("forms", <<>>, <<>>, c[1] \o c[2] \o c[3] \o c[4] \o c[5] \o c[6] \o c[7]) :
        c \in FormsLead \X FormsKeyword1 \X FormsNumber \X FormsSeparator
              \X FormsKeyword2 \X FormsExpr \X FormsTail}

ParseInit ==
    /\ parse_input \in TextInputs \cup ChainInputs \cup NestedInputs \cup FormsInputs
    /\ parse_result = Raise("")
    /\ call_n = 0
    /\ call_result = [err |-> "", v |-> 0]
    /\ parse_pc = "ready"

call_parse_plural_expression ==
    /\ parse_pc = "ready"
    /\ parse_input.kind # "forms"
    /\ parse_result' = parse_plural_expression(parse_input.text)
    /\ parse_pc' = "parsed"
    /\ UNCHANGED <<parse_input, call_n, call_result>>

call_parse_plural_forms ==
    /\ parse_pc = "ready"
    /\ parse_input.kind = "forms"
    /\ parse_result' = parse_plural_forms(parse_input.text)
    /\ parse_pc' = "parsed"
    /\ UNCHANGED <<parse_input, call_n, call_result>>

\* expr(k) on the expression the parser returned
call_expression ==
    /\ parse_pc \in {"parsed", "called"}
    /\ parse_result.raised = ""
    /\ \E k \in 0..MaxSample :
          /\ call_n' = k
          /\ call_result' = Evaluate(parse_result.expr, k)
    /\ parse_pc' = "called"
    /\ UNCHANGED <<parse_input, parse_result>>

(***************************************************************************)
(* strformat/wmlvar.py: FormatString                                       *)
(***************************************************************************)
LowerCase ==
    {"a", "b", "c", "d", "e", "f", "g", "h", "i", "j", "k", "l", "m", "n", "o", "p", "q",
     "r", "s", "t", "u", "v", "w", "x", "y", "z"}
UpperCase ==
    {"A", "B", "C", "D", "E", "F", "G", "H", "I", "J", "K", "L", "M", "N", "O", "P", "Q",
     "R", "S", "T", "U", "V", "W", "X", "Y", "Z"}

\* letters outside ASCII, of which the inputs hold this one
OtherLetters == {"é"}

\* \w of the re module on a str pattern: the letters and digits of Unicode
\* and the underscore
WordChars == LowerCase \cup UpperCase \cup Digits \cup {"_"} \cup OtherLetters

RECURSIVE NameRun(_, _)
\* the length of the longest run of [\.\w] that starts at p
NameRun(s, p) == IF At(s, p) \in WordChars \cup {"."} THEN 1 + NameRun(s, p + 1) ELSE 0

\* the pattern with [\.\w]* for [\.\w]+
field_re_one(s, p) ==
    IF At(s, p) = "$" /\ At(s, p + 1) \in WordChars
    THEN 1 + NameRun(s, p + 1)
    ELSE 0

\* _field_re = \$ (?P<name> [\w][\.\w]+ ) matched at p: the length of the
\* match, 0 without one
field_re(s, p) ==
    IF At(s, p) = "$" /\ At(s, p + 1) \in WordChars /\ NameRun(s, p + 2) >= 1
    THEN 2 + NameRun(s, p + 2)
    ELSE 0

RECURSIVE field_re_finditer(_, _)
\* _field_re.finditer(s) from p on: the matches, as <<first, last>>
field_re_finditer(s, p) ==
    IF p > Len(s) THEN <<>>
    ELSE IF field_re(s, p) > 0
         THEN <<<<p, p + field_re(s, p) - 1>>>> \o field_re_finditer(s, p + field_re(s, p))
         ELSE field_re_finditer(s, p + 1)

\* FormatString.__init__: _items holds match.group() of every match and
\* arguments match.group('name')
FormatStringOf(s, matches) ==
    [items |-> [k \in DOMAIN matches |-> SubSeq(s, matches[k][1], matches[k][2])],
     arguments |-> {SubSeq(s, matches[k][1] + 1, matches[k][2]) : k \in DOMAIN matches}]

FormatString(s) == FormatStringOf(s, field_re_finditer(s, 1))

(***************************************************************************)
(* check/msgformat/wmlvar.py: Checker.check_string, Checker.check_args     *)
(***************************************************************************)
\* the characters of the inputs in the order of their code points
CodePoints ==
    <<TAB, "\n", "\f", "\r", " ", "#", "$", "-", ".", "0", "1", "2", "3", "4", "5", "6", "7", "8", "9", ":",
      "A", "B", "C", "D", "E", "F", "G", "H", "I", "J", "K", "L", "M", "N", "O", "P", "Q",
      "R", "S", "T", "U", "V", "W", "X", "Y", "Z", "_",
      "a", "b", "c", "d", "e", "f", "g", "h", "i", "j", "k", "l", "m", "n", "o", "p", "q",
      "r", "s", "t", "u", "v", "w", "x", "y", "z", "¿", "é", "�">>

ord(c) == CHOOSE k \in DOMAIN CodePoints : CodePoints[k] = c

RECURSIVE StrLess(_, _)
\* a < b on str
StrLess(a, b) ==
    IF b = <<>> THEN FALSE
    ELSE IF a = <<>> THEN TRUE
    ELSE IF a[1] # b[1] THEN ord(a[1]) < ord(b[1])
    ELSE StrLess(Tail(a), Tail(b))

\* min(S) on str
StrMin(S) == CHOOSE x \in S : \A y \in S : x = y \/ StrLess(x, y)

RECURSIVE sorted(_)
\* sorted(S) on a set of str
sorted(S) == IF S = {} THEN <<>> ELSE <<StrMin(S)>> \o sorted(S \ {StrMin(S)})

VARIABLES
    \* the strings of the message and the keyword argument of check_args
    wml_src, wml_dst, omitted_int_conv_ok,
    \* what check_string returned for them
    src_fmt, dst_fmt,
    \* the findings and where the check of the message is
    wml_tags, wml_pc

wml_vars == <<wml_src, wml_dst, omitted_int_conv_ok, src_fmt, dst_fmt, wml_tags, wml_pc>>

src_loc == "msgid"
dst_loc == "msgstr"

\* lines 46-50 with the two sets exchanged
unknown_variables_swapped(src_args, dst_args) ==
    [k \in DOMAIN sorted(src_args \ dst_args) |->
        Tag("wml-variables-format-string-unknown-variable", "",
            <<sorted(src_args \ dst_args)[k]>>, <<"in", dst_loc, "but not in", src_loc>>)]

\* lines 46-50
unknown_variables(src_args, dst_args) ==
    [k \in DOMAIN sorted(dst_args \ src_args) |->
        Tag("wml-variables-format-string-unknown-variable", "",
            <<sorted(dst_args \ src_args)[k]>>, <<"in", dst_loc, "but not in", src_loc>>)]

\* lines 51-53 with >= for ==
missing_keys_any(src_args, dst_args, ok) ==
    IF Cardinality(src_args \ dst_args) >= 1 /\ ok THEN {} ELSE src_args \ dst_args

\* lines 51-53
missing_keys(src_args, dst_args, ok) ==
    IF Cardinality(src_args \ dst_args) = 1 /\ ok THEN {} ELSE src_args \ dst_args

\* lines 54-58
missing_arguments(keys) ==
    [k \in DOMAIN sorted(keys) |->
        Tag("wml-variables-format-string-missing-argument", "",
            <<sorted(keys)[k]>>, <<"not in", dst_loc, "while in", src_loc>>)]

NoFormat == [items |-> <<>>, arguments |-> {}]

\* check_string on the original
check_string_src ==
    /\ wml_pc = "src"
    /\ src_fmt' = FormatString(wml_src)
    /\ wml_pc' = "dst"
    /\ UNCHANGED <<wml_src, wml_dst, omitted_int_conv_ok, dst_fmt, wml_tags>>

\* check_string on the translation
check_string_dst ==
    /\ wml_pc = "dst"
    /\ dst_fmt' = FormatString(wml_dst)
    /\ wml_pc' = "args"
    /\ UNCHANGED <<wml_src, wml_dst, omitted_int_conv_ok, src_fmt, wml_tags>>

check_args ==
    /\ wml_pc = "args"
    /\ wml_tags' = wml_tags
                   \o unknown_variables(src_fmt.arguments, dst_fmt.arguments)
                   \o missing_arguments(missing_keys(src_fmt.arguments, dst_fmt.arguments,
                                                     omitted_int_conv_ok))
    /\ wml_pc' = "done"
    /\ UNCHANGED <<wml_src, wml_dst, omitted_int_conv_ok, src_fmt, dst_fmt>>

\* the longest string of the exhaustive inputs of FormatString
MaxWmlLen == 4
\* the most pieces a text with placeholders is put together from
MaxPieces == 2

WmlAlphabet == {"$", "a", ".", "é", " "}

\* placeholders, a lone `$', and plain text
WmlPieces ==
    {<<"$", "a", "b">>, <<"$", "a", ".", "b">>, <<"$", "c", "_", "1">>, <<"$", " ">>,
     <<"x", " ">>}

RECURSIVE Concat(_)
Concat(ss) == IF ss = <<>> THEN <<>> ELSE ss[1] \o Concat(Tail(ss))

WmlTexts == {Concat(ps) : ps \in SeqsUpTo(WmlPieces, MaxPieces)}

\* every short string as the original of an empty translation, and every
\* pair of texts with placeholders
WmlInit ==
    /\ \/ wml_src \in SeqsUpTo(WmlAlphabet, MaxWmlLen) /\ wml_dst = <<>>
       \/ wml_src \in WmlTexts /\ wml_dst \in WmlTexts
    /\ omitted_int_conv_ok \in BOOLEAN
    /\ src_fmt = NoFormat
    /\ dst_fmt = NoFormat
    /\ wml_tags = <<>>
    /\ wml_pc = "src"

\* no message is checked for its WML variables
WmlIdle ==
    /\ wml_src = <<>>
    /\ wml_dst = <<>>
    /\ omitted_int_conv_ok = FALSE
    /\ src_fmt = NoFormat
    /\ dst_fmt = NoFormat
    /\ wml_tags = <<>>
    /\ wml_pc = "idle"

(***************************************************************************)
(* check/__init__.py: Checker._check_message_flags                         *)
(***************************************************************************)
\* s.startswith(prefix), s.endswith(suffix)
startswith(s, prefix) == Len(prefix) <= Len(s) /\ SubSeq(s, 1, Len(prefix)) = prefix
endswith(s, suffix) ==
    Len(suffix) <= Len(s) /\ SubSeq(s, Len(s) - Len(suffix) + 1, Len(s)) = suffix

RECURSIVE lstrip(_, _)
lstrip(s, chars) == IF s # <<>> /\ s[1] \in chars THEN lstrip(Tail(s), chars) ELSE s
RECURSIVE rstrip(_, _)
rstrip(s, chars) ==
    IF s # <<>> /\ s[Len(s)] \in chars THEN rstrip(SubSeq(s, 1, Len(s) - 1), chars) ELSE s
\* s.strip(chars)
strip(s, chars) == rstrip(lstrip(s, chars), chars)

\* collections.Counter(seq)
Counter(seq) ==
    [x \in Range(seq) |-> Cardinality({k \in DOMAIN seq : seq[k] = x})]

\* a dict with d[key] = value set
dict_set(d, key, value) == [x \in DOMAIN d \cup {key} |-> IF x = key THEN value ELSE d[x]]

\* gettext.string_formats, the table of the dialects: the name of each with
\* examples of its conversions.  c and python share examples, sh shares
\* none with them.
string_formats ==
    (<<"c">> :> {"%s", "%d"}) @@ (<<"p", "y", "t", "h", "o", "n">> :> {"%s", "%(name)s"}) @@ (<<"s", "h">> :> {"$name"})

S_fuzzy == <<"f", "u", "z", "z", "y">>
S_wrap == <<"w", "r", "a", "p">>
S_no_wrap == <<"n", "o", "-", "w", "r", "a", "p">>
S_range == <<"r", "a", "n", "g", "e", ":">>
S_format == <<"-", "f", "o", "r", "m", "a", "t">>

VARIABLES
    \* message.flags, and whether message.msgid_plural is not None
    message_flags, msgid_plural,
    \* the namespace that is returned
    info,
    \* the locals: sorted(flags.items()) with the index of the next item
    flag_items, flag_k, wrap, format_flags, range_flags,
    \* the findings and where _check_message_flags is
    flag_tags, flag_pc

flag_vars == <<message_flags, msgid_plural, info, flag_items, flag_k, wrap, format_flags,
               range_flags, flag_tags, flag_pc>>

\* 1e999
inf == <<>>
Finite(x) == <<x>>

\* collections.defaultdict(dict) read at the four keys
NoFormatFlags ==
    [no |-> EmptyMap, possible |-> EmptyMap, impossible |-> EmptyMap, positive |-> EmptyMap]

\* lines 885-889
NewInfo == [fuzzy |-> FALSE, range_min |-> 0, range_max |-> inf, formats |-> {}]

FlagTag(name, args) == Tag(name, "", args, <<>>)

\* lines 885-895
check_message_flags_begin ==
    /\ flag_pc = "start"
    /\ info' = NewInfo
    /\ flag_items' = [k \in DOMAIN sorted(Range(message_flags)) |->
                        <<sorted(Range(message_flags))[k],
                          Counter(message_flags)[sorted(Range(message_flags))[k]]>>]
    /\ flag_k' = 1
    /\ wrap' = None
    /\ format_flags' = NoFormatFlags
    /\ range_flags' = EmptyMap
    /\ flag_pc' = "loop"
    /\ UNCHANGED <<message_flags, msgid_plural, flag_tags>>

\* what an iteration leaves: known_flag, n, the findings it adds, and the
\* locals it may change
Item(known, cnt, found, fz, wr, rmin, rmax, ff, rf) ==
    [known_flag |-> known, n |-> cnt, tags |-> found, fuzzy |-> fz, wrap |-> wr,
     range_min |-> rmin, range_max |-> rmax, format_flags |-> ff, range_flags |-> rf]

\* lines 898-899
fuzzy_flag(cnt) ==
    Item(TRUE, cnt, <<>>, TRUE, wrap, info.range_min, info.range_max, format_flags,
         range_flags)

\* lines 900-908 with the test of line 902 on the same value of wrap
wrap_flag_same(new_wrap, cnt) ==
    IF wrap = Some(new_wrap)
    THEN Item(TRUE, cnt, <<FlagTag("conflicting-message-flags", <<S_wrap, S_no_wrap>>)>>,
              info.fuzzy, wrap, info.range_min, info.range_max, format_flags, range_flags)
    ELSE Item(TRUE, cnt, <<>>, info.fuzzy, Some(new_wrap), info.range_min, info.range_max,
              format_flags, range_flags)

\* lines 900-908
wrap_flag(new_wrap, cnt) ==
    IF wrap = Some(~new_wrap)
    THEN Item(TRUE, cnt, <<FlagTag("conflicting-message-flags", <<S_wrap, S_no_wrap>>)>>,
              info.fuzzy, wrap, info.range_min, info.range_max, format_flags, range_flags)
    ELSE Item(TRUE, cnt, <<>>, info.fuzzy, Some(new_wrap), info.range_min, info.range_max,
              format_flags, range_flags)

\* \A([0-9]+)[.][.]([0-9]+)\Z matched on s
range_re(s) ==
    IF /\ DigitRun(s, 1) > 0
       /\ At(s, DigitRun(s, 1) + 1) = "."
       /\ At(s, DigitRun(s, 1) + 2) = "."
       /\ DigitRun(s, DigitRun(s, 1) + 3) > 0
       /\ DigitRun(s, 1) + 2 + DigitRun(s, DigitRun(s, 1) + 3) = Len(s)
    THEN [matched |-> TRUE,
          i |-> int(SubSeq(s, 1, DigitRun(s, 1))),
          j |-> int(SubSeq(s, DigitRun(s, 1) + 3, Len(s)))]
    ELSE [matched |-> FALSE, i |-> 0, j |-> 0]

\* line 910-911
without_plural == IF msgid_plural THEN <<>> ELSE <<FlagTag("range-flag-without-plural-string", <<>>)>>

\* line 915 with <= for <
valid_range_or_equal(a, b) == a <= b

\* line 915
valid_range(a, b) == a < b

\* range_flags[i, j][flag] += n
range_flags_add(rf, key, flag, cnt) ==
    dict_set(rf, key,
             IF key \in DOMAIN rf
             THEN dict_set(rf[key], flag, (IF flag \in DOMAIN rf[key] THEN rf[key][flag] ELSE 0) + cnt)
             ELSE (flag :> cnt))

\* lines 909-927, m the match of line 912
range_flag(flag, cnt, m) ==
    IF m.matched /\ valid_range(m.i, m.j)
    THEN Item(TRUE, 0, without_plural, info.fuzzy, wrap, m.i, Finite(m.j), format_flags,
              range_flags_add(range_flags, <<m.i, m.j>>, flag, cnt))
    ELSE Item(TRUE, cnt,
              without_plural \o <<FlagTag("invalid-range-flag", <<flag>>)>>,
              info.fuzzy, wrap, info.range_min, info.range_max, format_flags, range_flags)

\* the prefixes of line 930 in their order, with tp of line 931
Prefixes ==
    <<[prefix |-> <<"n", "o", "-">>, tp |-> "no"], [prefix |-> <<"p", "o", "s", "s", "i", "b", "l", "e", "-">>, tp |-> "possible"],
      [prefix |-> <<"i", "m", "p", "o", "s", "s", "i", "b", "l", "e", "-">>, tp |-> "impossible"], [prefix |-> <<>>, tp |-> "positive"]>>

\* flag[len(prefix):-7]
string_format_of(flag, prefix) == Slice(flag, Len(prefix) + 1, Len(flag) - Len(S_format))

RECURSIVE format_flag_from(_, _, _)
\* lines 928-938 from the k-th prefix on
format_flag_from(flag, cnt, k) ==
    IF k > Len(Prefixes)
    THEN Item(FALSE, cnt, <<>>, info.fuzzy, wrap, info.range_min, info.range_max,
              format_flags, range_flags)
    ELSE IF /\ startswith(flag, Prefixes[k].prefix)
            /\ string_format_of(flag, Prefixes[k].prefix) \in DOMAIN string_formats
         THEN Item(TRUE, cnt, <<>>, info.fuzzy, wrap, info.range_min, info.range_max,
                   [format_flags EXCEPT ![Prefixes[k].tp] =
                        dict_set(@, string_format_of(flag, Prefixes[k].prefix), flag)],
                   range_flags)
         ELSE format_flag_from(flag, cnt, k + 1)

\* lines 939-940
other_flag(cnt) ==
    Item(FALSE, cnt, <<>>, info.fuzzy, wrap, info.range_min, info.range_max, format_flags,
         range_flags)

\* ' \t\r\f\v' of line 912 (the inputs hold no vertical tab)
StripChars == {" ", TAB, "\r", "\f"}

\* the if statement of lines 898-940
flag_item(flag, cnt) ==
    IF flag = S_fuzzy THEN fuzzy_flag(cnt)
    ELSE IF flag \in {S_wrap, S_no_wrap} THEN wrap_flag(flag = S_wrap, cnt)
    ELSE IF startswith(flag, S_range)
         THEN range_flag(flag, cnt,
                         range_re(strip(SubSeq(flag, Len(S_range) + 1, Len(flag)),
                                        StripChars)))
    ELSE IF endswith(flag, S_format) THEN format_flag_from(flag, cnt, 1)
    ELSE other_flag(cnt)

\* lines 941-950
flag_findings(flag, it) ==
    it.tags
    \o (IF ~it.known_flag THEN <<FlagTag("unknown-message-flag", <<flag>>)>> ELSE <<>>)
    \o (IF it.n > 1 /\ flag # <<>> THEN <<FlagTag("duplicate-message-flag", <<flag>>)>>
        ELSE <<>>)

\* the state after the iteration
flag_item_done(flag, it) ==
    /\ info' = [info EXCEPT !.fuzzy = it.fuzzy, !.range_min = it.range_min,
                            !.range_max = it.range_max]
    /\ wrap' = it.wrap
    /\ format_flags' = it.format_flags
    /\ range_flags' = it.range_flags
    /\ flag_tags' = flag_tags \o flag_findings(flag, it)

\* one iteration of `for flag, n in sorted(flags.items())` (lines 896-950)
check_message_flag ==
    /\ flag_pc = "loop"
    /\ flag_k <= Len(flag_items)
    /\ flag_item_done(flag_items[flag_k][1],
                      flag_item(flag_items[flag_k][1], flag_items[flag_k][2]))
    /\ flag_k' = flag_k + 1
    /\ UNCHANGED <<message_flags, msgid_plural, flag_items, flag_pc>>

\* (a, b) < (c, d) on tuples of int
TupleLess(x, y) == x[1] < y[1] \/ (x[1] = y[1] /\ x[2] < y[2])
TupleMin(S) == CHOOSE x \in S : \A y \in S : x = y \/ TupleLess(x, y)

RECURSIVE Sum(_)
\* sum(d.values())
Sum(d) ==
    IF DOMAIN d = {} THEN 0
    ELSE LET x == CHOOSE y \in DOMAIN d : TRUE
         IN  d[x] + Sum([y \in DOMAIN d \ {x} |-> d[y]])

\* line 951 with > 2 for > 1
ranges_conflict_many(rf) == Cardinality(DOMAIN rf) > 2

\* line 951
ranges_conflict(rf) == Cardinality(DOMAIN rf) > 1

\* lines 951-964
range_findings(rf) ==
    IF ranges_conflict(rf)
    THEN <<FlagTag("conflicting-message-flags",
                   <<StrMin(DOMAIN rf[TupleMin(DOMAIN rf)]),
                     StrMin(DOMAIN rf[TupleMin(DOMAIN rf \ {TupleMin(DOMAIN rf)})])>>)>>
    ELSE IF Cardinality(DOMAIN rf) = 1 /\ Sum(rf[TupleMin(DOMAIN rf)]) > 1
         THEN <<FlagTag("duplicate-message-flag", <<StrMin(DOMAIN rf[TupleMin(DOMAIN rf)])>>)>>
         ELSE <<>>

\* the pairs <<a, b>> with a < b <= m, in the order of the two loops
IndexPairs(m) == Concat([a \in 1..m |-> [b \in 1..(m - a) |-> <<a, a + b>>]])

\* lines 971-975 with == for &
compatible_equal(fmt1, fmt2) == string_formats[fmt1] = string_formats[fmt2]

\* lines 971-975
compatible(fmt1, fmt2) == string_formats[fmt1] \cap string_formats[fmt2] # {}

\* lines 967-979, fmts the sorted keys of positive_format_flags
format_findings_of(positive, fmts) ==
    [k \in DOMAIN SelectSeq(IndexPairs(Len(fmts)),
                            LAMBDA q : ~compatible(fmts[q[1]], fmts[q[2]])) |->
        FlagTag("conflicting-message-flags",
                <<positive[fmts[SelectSeq(IndexPairs(Len(fmts)),
                                LAMBDA q : ~compatible(fmts[q[1]], fmts[q[2]]))[k][1]]],
                  positive[fmts[SelectSeq(IndexPairs(Len(fmts)),
                                LAMBDA q : ~compatible(fmts[q[1]], fmts[q[2]]))[k][2]]]>>)]

format_findings(positive) == format_findings_of(positive, sorted(DOMAIN positive))

\* line 983
conflicting_formats(positive, negative) == DOMAIN positive \cap DOMAIN negative

\* lines 981-989 for one pair of keys
negative_findings(positive, negative) ==
    [k \in DOMAIN sorted(conflicting_formats(positive, negative)) |->
        FlagTag("conflicting-message-flags",
                <<positive[sorted(conflicting_formats(positive, negative))[k]],
                  negative[sorted(conflicting_formats(positive, negative))[k]]>>)]

\* lines 990-998 with the tag of line 985
redundant_findings_as_conflict(positive, possible) ==
    [k \in DOMAIN sorted(DOMAIN positive \cap DOMAIN possible) |->
        FlagTag("conflicting-message-flags",
                <<positive[sorted(DOMAIN positive \cap DOMAIN possible)[k]],
                  possible[sorted(DOMAIN positive \cap DOMAIN possible)[k]]>>)]

\* lines 990-998
redundant_findings(positive, possible) ==
    [k \in DOMAIN sorted(DOMAIN positive \cap DOMAIN possible) |->
        FlagTag("redundant-message-flag",
                <<possible[sorted(DOMAIN positive \cap DOMAIN possible)[k]],
                  positive[sorted(DOMAIN positive \cap DOMAIN possible)[k]]>>)]

\* lines 951-964: the range flags, after the loop
check_range_flags ==
    /\ flag_pc = "loop"
    /\ flag_k > Len(flag_items)
    /\ flag_tags' = flag_tags \o range_findings(range_flags)
    /\ flag_pc' = "formats"
    /\ UNCHANGED <<message_flags, msgid_plural, info, flag_items, flag_k, wrap,
                   format_flags, range_flags>>

\* lines 965-979: the positive format flags, pair by pair
check_format_flags ==
    /\ flag_pc = "formats"
    /\ info' = [info EXCEPT !.formats = DOMAIN format_flags.positive]
    /\ flag_tags' = flag_tags \o format_findings(format_flags.positive)
    /\ flag_pc' = "negative"
    /\ UNCHANGED <<message_flags, msgid_plural, flag_items, flag_k, wrap, format_flags,
                   range_flags>>

\* lines 980-989 without the pair ('', 'impossible')
check_negative_flags_no_impossible ==
    /\ flag_pc = "negative"
    /\ flag_tags' = flag_tags
                    \o negative_findings(format_flags.positive, format_flags.no)
                    \o negative_findings(format_flags.possible, format_flags.impossible)
    /\ flag_pc' = "redundant"
    /\ UNCHANGED <<message_flags, msgid_plural, info, flag_items, flag_k, wrap,
                   format_flags, range_flags>>

\* lines 980-989: a format flag with its negation
check_negative_flags ==
    /\ flag_pc = "negative"
    /\ flag_tags' = flag_tags
                    \o negative_findings(format_flags.positive, format_flags.no)
                    \o negative_findings(format_flags.positive, format_flags.impossible)
                    \o negative_findings(format_flags.possible, format_flags.impossible)
    /\ flag_pc' = "redundant"
    /\ UNCHANGED <<message_flags, msgid_plural, info, flag_items, flag_k, wrap,
                   format_flags, range_flags>>

\* lines 990-999: a possible format flag beside the positive one; return
check_redundant_flags ==
    /\ flag_pc = "redundant"
    /\ flag_tags' = flag_tags
                    \o redundant_findings(format_flags.positive, format_flags.possible)
    /\ flag_pc' = "done"
    /\ UNCHANGED <<message_flags, msgid_plural, info, flag_items, flag_k, wrap,
                   format_flags, range_flags>>

\* the longest raw flag list
MaxFlags == 3

F_bogus == <<"b", "o", "g", "u", "s">>
F_range_1_5 == <<"r", "a", "n", "g", "e", ":", "1", ".", ".", "5">>
F_range_1_5_sp == <<"r", "a", "n", "g", "e", ":", " ", "1", ".", ".", "5">>
F_range_2_6 == <<"r", "a", "n", "g", "e", ":", "2", ".", ".", "6">>
F_range_0_9 == <<"r", "a", "n", "g", "e", ":", "0", ".", ".", "9">>
F_range_5_1 == <<"r", "a", "n", "g", "e", ":", "5", ".", ".", "1">>
F_range_3_3 == <<"r", "a", "n", "g", "e", ":", "3", ".", ".", "3">>
F_range_x == <<"r", "a", "n", "g", "e", ":", "x">>
F_c == <<"c", "-", "f", "o", "r", "m", "a", "t">>
F_no_c == <<"n", "o", "-", "c", "-", "f", "o", "r", "m", "a", "t">>
F_impossible_c == <<"i", "m", "p", "o", "s", "s", "i", "b", "l", "e", "-", "c", "-", "f", "o", "r", "m", "a", "t">>
F_possible_c == <<"p", "o", "s", "s", "i", "b", "l", "e", "-", "c", "-", "f", "o", "r", "m", "a", "t">>
F_python == <<"p", "y", "t", "h", "o", "n", "-", "f", "o", "r", "m", "a", "t">>
F_no_python == <<"n", "o", "-", "p", "y", "t", "h", "o", "n", "-", "f", "o", "r", "m", "a", "t">>
F_sh == <<"s", "h", "-", "f", "o", "r", "m", "a", "t">>
F_foo == <<"f", "o", "o", "-", "f", "o", "r", "m", "a", "t">>

PlainFlags == {S_fuzzy, S_wrap, S_no_wrap, F_bogus, <<>>}
RangeFlags ==
    {F_range_1_5, F_range_1_5_sp, F_range_2_6, F_range_0_9, F_range_5_1, F_range_3_3,
     F_range_x}
FormatFlags ==
    {F_c, F_no_c, F_impossible_c, F_possible_c, F_python, F_no_python, F_sh, F_foo}

\* the flag lists: of each kind of flag up to MaxFlags, and of all kinds
\* together shorter ones
FlagLists ==
    SeqsUpTo(PlainFlags, MaxFlags) \cup SeqsUpTo(RangeFlags, MaxFlags)
    \cup SeqsUpTo(FormatFlags, MaxFlags)
    \cup SeqsUpTo(PlainFlags \cup RangeFlags \cup FormatFlags, MaxFlags - 1)

FlagsInit ==
    /\ message_flags \in FlagLists
    /\ msgid_plural \in BOOLEAN
    /\ info = NewInfo
    /\ flag_items = <<>>
    /\ flag_k = 1
    /\ wrap = None
    /\ format_flags = NoFormatFlags
    /\ range_flags = EmptyMap
    /\ flag_tags = <<>>
    /\ flag_pc = "start"

\* no message is checked for its flags
FlagsIdle ==
    /\ message_flags = <<>>
    /\ msgid_plural = FALSE
    /\ info = NewInfo
    /\ flag_items = <<>>
    /\ flag_k = 1
    /\ wrap = None
    /\ format_flags = NoFormatFlags
    /\ range_flags = EmptyMap
    /\ flag_tags = <<>>
    /\ flag_pc = "idle"

(***************************************************************************)
(* check/__init__.py: Checker.check_messages                               *)
(***************************************************************************)
VARIABLES
    \* ctx.file, ctx.is_template, whether ctx.encoding is not None,
    \* ctx.is_binary and ctx.file.possible_hidden_strings
    ctx_file, ctx_is_template, ctx_encoding, ctx_is_binary, possible_hidden_strings,
    \* the locals of check_messages
    found_unusual_characters, msgid_counter,
    \* the message the loop is at, and where check_messages is
    message_k, messages_pc,
    \* for each message the loop has left, the findings reported for it: by
    \* _check_message_flags, and by the rest of the body of the loop
    message_tags

messages_vars == <<ctx_file, ctx_is_template, ctx_encoding, ctx_is_binary,
                   possible_hidden_strings, found_unusual_characters, msgid_counter,
                   message_k, messages_pc, message_tags>>

\* a message of the file: polib's entry, msgstr_plural in the order of its
\* keys
POEntry(obsolete, msgid, msgctxt, flags, plural, msgstr, msgstr_plural, previous) ==
    [obsolete |-> obsolete, msgid |-> msgid, msgctxt |-> msgctxt, flags |-> flags,
     msgid_plural |-> plural, msgstr |-> msgstr, msgstr_plural |-> msgstr_plural,
     previous_msgctxt |-> None, previous_msgid |-> previous, previous_msgid_plural |-> None]

\* lines 1032-1036
is_header_entry(entry) == entry.msgid = <<>> /\ entry.msgctxt = None

\* lines 58-67: the characters find_unusual_characters finds in s. Of the
\* control characters the inputs hold form feed and carriage return, of
\* the others the replacement character and the inverted question mark.
UnusualCharacters == {"\f", "\r", "�"}

find_unusual_characters(s) ==
    {s[p] : p \in {q \in DOMAIN s :
                       \/ s[q] \in UnusualCharacters
                       \/ s[q] = "¿" /\ q > 1 /\ s[q - 1] \in WordChars}}

RECURSIVE Lines(_, _)
\* the lines of s, the line read so far being cur
Lines(s, cur) ==
    IF s = <<>> THEN <<cur>>
    ELSE IF s[1] = "\n" THEN <<cur>> \o Lines(Tail(s), <<>>)
    ELSE Lines(Tail(s), Append(cur, s[1]))

ConflictMarkerBegin == <<"#", "-", "#", "-", "#", "-", "#", "-", "#", " ", " ">>
ConflictMarkerEnd == <<" ", " ", "#", "-", "#", "-", "#", "-", "#", "-", "#">>

\* gettext.py line 117: the first line of s that is a conflict marker, or
\* None
search_for_conflict_marker(s) ==
    LET found == SelectSeq(Lines(s, <<>>),
                           LAMBDA l : /\ Len(l) > Len(ConflictMarkerBegin) + Len(ConflictMarkerEnd)
                                      /\ startswith(l, ConflictMarkerBegin)
                                      /\ endswith(l, ConflictMarkerEnd))
    IN  IF found = <<>> THEN None ELSE Some(found[1])

\* any(...) and all(...) of the values of msgstr_plural
AnyOf(ss) == \E k \in DOMAIN ss : ss[k] # <<>>
AllOf(ss) == \A k \in DOMAIN ss : ss[k] # <<>>

\* lines 811-813: the counter after the message, and the finding
count_message(counter, key) ==
    dict_set(counter, key, IF key \in DOMAIN counter THEN counter[key] + 1 ELSE 1)

duplicate_definition(counter, key) ==
    IF count_message(counter, key)[key] = 2
    THEN <<FlagTag("duplicate-message-definition", <<>>)>>
    ELSE <<>>

\* lines 814-818
translation_in_template(message, template) ==
    IF template /\ (message.msgstr # <<>> \/ AnyOf(message.msgstr_plural))
    THEN <<FlagTag("translation-in-template", <<>>)>>
    ELSE <<>>

\* lines 821-827
stray_previous_msgid(message, fuzzy) ==
    IF /\ \E s \in {message.previous_msgctxt, message.previous_msgid,
                    message.previous_msgid_plural} : s # None
       /\ ~fuzzy
    THEN <<FlagTag("stray-previous-msgid", <<>>)>>
    ELSE <<>>

\* lines 828-835: the strings compared with msgid
newline_strings(message, fuzzy) ==
    (IF message.msgid_plural # None THEN <<message.msgid_plural[1]>> ELSE <<>>)
    \o (IF ~fuzzy /\ message.msgstr # <<>> THEN <<message.msgstr>> ELSE <<>>)
    \o (IF ~fuzzy /\ AnyOf(message.msgstr_plural) THEN message.msgstr_plural ELSE <<>>)

\* lines 819-820 and 836-843
inconsistent_newlines(message, strings) ==
    (IF \E k \in DOMAIN strings :
            startswith(strings[k], <<"\n">>) # startswith(message.msgid, <<"\n">>)
     THEN <<FlagTag("inconsistent-leading-newlines", <<>>)>>
     ELSE <<>>)
    \o (IF \E k \in DOMAIN strings :
               endswith(strings[k], <<"\n">>) # endswith(message.msgid, <<"\n">>)
        THEN <<FlagTag("inconsistent-trailing-newlines", <<>>)>>
        ELSE <<>>)

\* lines 844-848: the translations
translations(message) ==
    (IF message.msgstr # <<>> THEN <<message.msgstr>> ELSE <<>>)
    \o (IF AnyOf(message.msgstr_plural) THEN message.msgstr_plural ELSE <<>>)

RECURSIVE unusual_characters(_, _, _, _, _)
\* lines 854-867: the loop over the translations from string k on; the
\* findings and found_unusual_characters as the loop leaves it
unusual_characters(strings, k, msgid_uc, found, out) ==
    IF k > Len(strings) THEN [tags |-> out, found |-> found]
    ELSE IF (find_unusual_characters(strings[k]) \ msgid_uc) \ found = {}
    THEN unusual_characters(strings, k + 1, msgid_uc, found, out)
    ELSE unusual_characters(
             strings, k + 1, msgid_uc,
             found \cup ((find_unusual_characters(strings[k]) \ msgid_uc) \ found),
             Append(out,
                    FlagTag("unusual-character-in-translation",
                            sorted({<<c>> : c \in (find_unusual_characters(strings[k])
                                                    \ msgid_uc) \ found}))))

\* lines 849-867
unusual_characters_of(message, encoding, found) ==
    IF ~encoding THEN [tags |-> <<>>, found |-> found]
    ELSE unusual_characters(
             translations(message), 1,
             find_unusual_characters(message.msgid)
                 \cup find_unusual_characters(IF message.msgid_plural = None THEN <<>>
                                              ELSE message.msgid_plural[1]),
             found, <<>>)

\* lines 868-876
untranslated_parts(message, fuzzy, markers) ==
    IF fuzzy THEN <<>>
    ELSE (IF markers # <<>>
          THEN <<FlagTag("conflict-marker-in-translation", <<markers[1][1]>>)>>
          ELSE <<>>)
         \o (IF AnyOf(message.msgstr_plural) /\ ~AllOf(message.msgstr_plural)
             THEN <<FlagTag("partially-translated-message", <<>>)>>
             ELSE <<>>)

\* lines 811-876 for one message, flags being what _check_message_flags
\* returned: the findings in their order
message_findings(message, flags, counter, found, template, encoding) ==
    duplicate_definition(counter, <<message.msgid, message.msgctxt>>)
    \o translation_in_template(message, template)
    \o stray_previous_msgid(message, flags.fuzzy)
    \o inconsistent_newlines(message, newline_strings(message, flags.fuzzy))
    \o unusual_characters_of(message, encoding, found).tags
    \o untranslated_parts(message, flags.fuzzy,
                          SelectSeq([k \in DOMAIN translations(message) |->
                                         search_for_conflict_marker(translations(message)[k])],
                                    LAMBDA m : m # None))

RECURSIVE Reported(_)
\* the number of the findings reported for the messages the loop has left
Reported(mt) ==
    IF mt = <<>> THEN 0
    ELSE Len(mt[Len(mt)].flags) + Len(mt[Len(mt)].rest) + Reported(SubSeq(mt, 1, Len(mt) - 1))

\* lines 802-803
check_messages_begin ==
    /\ messages_pc = "start"
    /\ found_unusual_characters' = {}
    /\ msgid_counter' = EmptyMap
    /\ message_k' = 1
    /\ messages_pc' = "loop"
    /\ UNCHANGED <<ctx_file, ctx_is_template, ctx_encoding, ctx_is_binary,
                   possible_hidden_strings, message_tags, flag_vars>>

\* lines 804-809: the next message; _check_message_flags is called on it
\* unless it is obsolete or the header entry
check_messages_next ==
    /\ messages_pc = "loop"
    /\ message_k <= Len(ctx_file)
    /\ IF ctx_file[message_k].obsolete \/ is_header_entry(ctx_file[message_k]) THEN
           /\ message_k' = message_k + 1
           /\ message_tags' = Append(message_tags, [flags |-> <<>>, rest |-> <<>>])
           /\ UNCHANGED <<messages_pc, flag_vars>>
       ELSE
           /\ message_flags' = ctx_file[message_k].flags
           /\ msgid_plural' = (ctx_file[message_k].msgid_plural # None)
           /\ flag_pc' = "start"
           /\ messages_pc' = "flags"
           /\ UNCHANGED <<message_k, message_tags, info, flag_items, flag_k, wrap,
                          format_flags, range_flags, flag_tags>>
    /\ UNCHANGED <<ctx_file, ctx_is_template, ctx_encoding, ctx_is_binary,
                   possible_hidden_strings, found_unusual_characters, msgid_counter>>

\* lines 1001-1009: the format checkers and the XML check are not part of
\* the sources; no message of the inputs has a format they know or the
\* comment of an XML message
check_message_formats(message, flags) == <<>>

\* lines 810-876: _check_message_flags has returned info; the rest of the
\* body of the loop
check_messages_message ==
    /\ messages_pc = "flags"
    /\ flag_pc = "done"
    /\ flag_tags' = flag_tags
                    \o check_message_formats(ctx_file[message_k], info)
                    \o message_findings(ctx_file[message_k], info, msgid_counter,
                                        found_unusual_characters, ctx_is_template,
                                        ctx_encoding)
    /\ msgid_counter' = count_message(msgid_counter,
                                      <<ctx_file[message_k].msgid, ctx_file[message_k].msgctxt>>)
    /\ found_unusual_characters' =
           unusual_characters_of(ctx_file[message_k], ctx_encoding,
                                 found_unusual_characters).found
    /\ message_tags' =
           Append(message_tags,
                  [flags |-> SubSeq(flag_tags, Reported(message_tags) + 1, Len(flag_tags)),
                   rest |-> check_message_formats(ctx_file[message_k], info)
                            \o message_findings(ctx_file[message_k], info, msgid_counter,
                                                found_unusual_characters, ctx_is_template,
                                                ctx_encoding)])
    /\ message_k' = message_k + 1
    /\ flag_pc' = "idle"
    /\ messages_pc' = "loop"
    /\ UNCHANGED <<ctx_file, ctx_is_template, ctx_encoding, ctx_is_binary,
                   possible_hidden_strings, message_flags, msgid_plural, info, flag_items,
                   flag_k, wrap, format_flags, range_flags>>

\* lines 877-882: after the loop
check_messages_end ==
    /\ messages_pc = "loop"
    /\ message_k > Len(ctx_file)
    /\ flag_tags' = IF DOMAIN msgid_counter = {}
                       /\ ~(ctx_is_binary /\ possible_hidden_strings)
                    THEN Append(flag_tags, FlagTag("empty-file", <<>>))
                    ELSE flag_tags
    /\ messages_pc' = "done"
    /\ UNCHANGED <<ctx_file, ctx_is_template, ctx_encoding, ctx_is_binary,
                   possible_hidden_strings, found_unusual_characters, msgid_counter,
                   message_k, message_tags, message_flags, msgid_plural, info, flag_items,
                   flag_k, wrap, format_flags, range_flags, flag_pc>>

\* the longest file
MaxFile == 2

\* a message and its translation
E_plain == POEntry(FALSE, <<"a">>, None, <<>>, None, <<"b">>, <<>>, None)
\* a translation with the replacement character
E_unusual == POEntry(FALSE, <<"b">>, None, <<>>, None, <<"c", "�">>, <<>>, None)
\* a fuzzy one with the replacement character and a carriage return
E_unusual_again == POEntry(FALSE, <<"c">>, None, <<S_fuzzy>>, None, <<"�", "\r">>, <<>>, Some(<<"x">>))
\* an inverted question mark after a letter, a newline msgid has not, a
\* previous msgid
E_question ==
    POEntry(FALSE, <<"d">>, Some(<<"k">>), <<S_wrap, S_no_wrap>>, None, <<"a", "¿", "\n">>, <<>>, Some(<<"p">>))
\* the header entry
E_header == POEntry(FALSE, <<>>, None, <<S_fuzzy>>, None, <<"h">>, <<>>, None)
\* an obsolete message
E_obsolete == POEntry(TRUE, <<"a">>, None, <<>>, None, <<"b">>, <<>>, None)
\* a plural message translated in part
E_plural ==
    POEntry(FALSE, <<"\n", "a">>, None, <<F_range_5_1, F_sh>>, Some(<<"a", "s">>), <<>>, <<<<"x">>, <<>>>>, None)
\* the msgid of E_plain, with a conflict marker in the translation
E_marker == POEntry(FALSE, <<"a">>, None, <<>>, None, <<"#", "-", "#", "-", "#", "-", "#", "-", "#", " ", " ", "x", " ", " ", "#", "-", "#", "-", "#", "-", "#", "-", "#", "\n", "b">>, <<>>, None)

Entries ==
    {E_plain, E_unusual, E_unusual_again, E_question, E_header, E_obsolete, E_plural,
     E_marker}

MessagesInit ==
    /\ ctx_file \in SeqsUpTo(Entries, MaxFile)
    /\ ctx_is_template \in BOOLEAN
    /\ ctx_encoding \in BOOLEAN
    /\ ctx_is_binary \in BOOLEAN
    /\ possible_hidden_strings \in BOOLEAN
    /\ found_unusual_characters = {}
    /\ msgid_counter = EmptyMap
    /\ message_k = 1
    /\ messages_pc = "start"
    /\ message_tags = <<>>

(***************************************************************************)
(* tags.py: OrderedGroup, Tag                                              *)
(***************************************************************************)
VARIABLES
    \* self.severity and self.certainty of a Tag, as their names
    severity, certainty,
    \* the calls of get_priority in order: the attributes and the result
    priorities

tag_vars == <<severity, certainty, priorities>>

\* OrderedGroup(name, *items): each item with its place in the list
OrderedGroup(items) == [name \in Range(items) |-> (CHOOSE k \in DOMAIN items : items[k] = name) - 1]

severities ==
    OrderedGroup(<<"pedantic", "wishlist", "minor", "normal", "important", "serious">>)

certainties == OrderedGroup(<<"wild-guess", "possible", "certain">>)

\* s[b] for a string s of two characters and a bool b
AtBool(s, b) == s[IF b THEN 2 ELSE 1]

\* Tag.get_priority (lines 119-131)
get_priority(s, c) ==
    LET S == severities
        C == certainties
    IN  CASE S[s] = S["pedantic"] -> "P"
          [] S[s] = S["wishlist"] -> "I"
          [] S[s] = S["minor"] -> AtBool(<<"I", "W">>, C[c] >= C["certain"])
          [] S[s] = S["normal"] -> AtBool(<<"I", "W">>, C[c] >= C["possible"])
          [] S[s] = S["important"] -> AtBool(<<"E", "W">>, C[c] >= C["possible"])
          [] S[s] = S["serious"] -> "E"

\* the largest number of calls of get_priority
MaxCalls == 2

\* Tag._set_severity
set_severity ==
    /\ \E value \in DOMAIN severities : severity' = value
    /\ UNCHANGED <<certainty, priorities>>

\* Tag._set_certainty
set_certainty ==
    /\ \E value \in DOMAIN certainties : certainty' = value
    /\ UNCHANGED <<severity, priorities>>

\* a call of get_priority, as Tag.format makes it
call_get_priority ==
    /\ Len(priorities) < MaxCalls
    /\ priorities' = Append(priorities,
                            [severity |-> severity, certainty |-> certainty,
                             priority |-> get_priority(severity, certainty)])
    /\ UNCHANGED <<severity, certainty>>

\* Tag(name=..., severity=..., certainty=...)
TagsInit ==
    /\ severity \in DOMAIN severities
    /\ certainty \in DOMAIN certainties
    /\ priorities = <<>>

\* no Tag is made
TagsIdle ==
    /\ severity = "pedantic"
    /\ certainty = "wild-guess"
    /\ priorities = <<>>

\* check_messages is not run
MessagesIdle ==
    /\ ctx_file = <<>>
    /\ ctx_is_template = FALSE
    /\ ctx_encoding = FALSE
    /\ ctx_is_binary = FALSE
    /\ possible_hidden_strings = FALSE
    /\ found_unusual_characters = {}
    /\ msgid_counter = EmptyMap
    /\ message_k = 1
    /\ messages_pc = "idle"
    /\ message_tags = <<>>

\* check_plurals is not run
PluralIdle ==
    /\ metadata = <<>>
    /\ file = <<>>
    /\ correct_plural_forms = None
    /\ is_template = FALSE
    /\ ctx_plural_preimage = None
    /\ tags = <<>>
    /\ plural_forms = None
    /\ plural_forms_hint = <<>>
    /\ has_plurals = FALSE
    /\ n = 0
    /\ expr = <<>>
    /\ locally_correct_n = None
    /\ locally_correct_expr = None
    /\ plural_preimage = EmptyMap
    /\ unusual_plural_forms = FALSE
    /\ i = 0
    /\ codomain = None
    /\ calls = <<>>
    /\ locally_correct_calls = <<>>
    /\ uncov_rngs = None
    /\ period = None
    /\ pc = "idle"
    /\ exception = ""

\* the parser is not run
ParseIdle ==
    /\ parse_input = Input("none", <<>>, <<>>, <<>>)
    /\ parse_result = Raise("")
    /\ call_n = 0
    /\ call_result = [err |-> "", v |-> 0]
    /\ parse_pc = "idle"

vars == <<plural_vars, parse_vars, wml_vars, flag_vars, messages_vars, tag_vars>>

(***************************************************************************)
(* Spec: check_plurals run on a catalog                                    *)
(***************************************************************************)
Init == PluralInit /\ ParseIdle /\ WmlIdle /\ FlagsIdle /\ MessagesIdle /\ TagsIdle

Next ==
    \/ check_plurals_begin /\ UNCHANGED <<parse_vars, wml_vars, flag_vars, messages_vars, tag_vars>>
    \/ sample_step /\ UNCHANGED <<parse_vars, wml_vars, flag_vars, messages_vars, tag_vars>>
    \/ sample_else /\ UNCHANGED <<parse_vars, wml_vars, flag_vars, messages_vars, tag_vars>>
    \/ static_analysis /\ UNCHANGED <<parse_vars, wml_vars, flag_vars, messages_vars, tag_vars>>
    \/ period_scan /\ UNCHANGED <<parse_vars, wml_vars, flag_vars, messages_vars, tag_vars>>
    \/ report_ranges /\ UNCHANGED <<parse_vars, wml_vars, flag_vars, messages_vars, tag_vars>>

Spec == Init /\ [][Next]_vars

(***************************************************************************)
(* SpecParse: the parser run on a string                                   *)
(***************************************************************************)
InitParse == ParseInit /\ PluralIdle /\ WmlIdle /\ FlagsIdle /\ MessagesIdle /\ TagsIdle

NextParse ==
    \/ call_parse_plural_expression /\ UNCHANGED <<plural_vars, wml_vars, flag_vars, messages_vars, tag_vars>>
    \/ call_parse_plural_forms /\ UNCHANGED <<plural_vars, wml_vars, flag_vars, messages_vars, tag_vars>>
    \/ call_expression /\ UNCHANGED <<plural_vars, wml_vars, flag_vars, messages_vars, tag_vars>>

SpecParse == InitParse /\ [][NextParse]_vars

(***************************************************************************)
(* SpecWml: the WML variables of a message and of its translation checked  *)
(***************************************************************************)
InitWml == WmlInit /\ PluralIdle /\ ParseIdle /\ FlagsIdle /\ MessagesIdle /\ TagsIdle

NextWml ==
    \/ check_string_src /\ UNCHANGED <<plural_vars, parse_vars, flag_vars, messages_vars, tag_vars>>
    \/ check_string_dst /\ UNCHANGED <<plural_vars, parse_vars, flag_vars, messages_vars, tag_vars>>
    \/ check_args /\ UNCHANGED <<plural_vars, parse_vars, flag_vars, messages_vars, tag_vars>>

SpecWml == InitWml /\ [][NextWml]_vars

(***************************************************************************)
(* SpecFlags: the flags of a message checked                               *)
(***************************************************************************)
InitFlags == FlagsInit /\ PluralIdle /\ ParseIdle /\ WmlIdle /\ MessagesIdle /\ TagsIdle

NextFlags ==
    \/ check_message_flags_begin /\ UNCHANGED <<plural_vars, parse_vars, wml_vars, messages_vars, tag_vars>>
    \/ check_message_flag /\ UNCHANGED <<plural_vars, parse_vars, wml_vars, messages_vars, tag_vars>>
    \/ check_range_flags /\ UNCHANGED <<plural_vars, parse_vars, wml_vars, messages_vars, tag_vars>>
    \/ check_format_flags /\ UNCHANGED <<plural_vars, parse_vars, wml_vars, messages_vars, tag_vars>>
    \/ check_negative_flags /\ UNCHANGED <<plural_vars, parse_vars, wml_vars, messages_vars, tag_vars>>
    \/ check_redundant_flags /\ UNCHANGED <<plural_vars, parse_vars, wml_vars, messages_vars, tag_vars>>

SpecFlags == InitFlags /\ [][NextFlags]_vars

(***************************************************************************)
(* SpecMessages: the messages of a file checked                            *)
(***************************************************************************)
InitMessages == MessagesInit /\ FlagsIdle /\ PluralIdle /\ ParseIdle /\ WmlIdle /\ TagsIdle

NextMessages ==
    \/ check_messages_begin /\ UNCHANGED <<plural_vars, parse_vars, wml_vars, tag_vars>>
    \/ check_messages_next /\ UNCHANGED <<plural_vars, parse_vars, wml_vars, tag_vars>>
    \/ check_message_flags_begin /\ UNCHANGED <<plural_vars, parse_vars, wml_vars, messages_vars, tag_vars>>
    \/ check_message_flag /\ UNCHANGED <<plural_vars, parse_vars, wml_vars, messages_vars, tag_vars>>
    \/ check_range_flags /\ UNCHANGED <<plural_vars, parse_vars, wml_vars, messages_vars, tag_vars>>
    \/ check_format_flags /\ UNCHANGED <<plural_vars, parse_vars, wml_vars, messages_vars, tag_vars>>
    \/ check_negative_flags /\ UNCHANGED <<plural_vars, parse_vars, wml_vars, messages_vars, tag_vars>>
    \/ check_redundant_flags /\ UNCHANGED <<plural_vars, parse_vars, wml_vars, messages_vars, tag_vars>>
    \/ check_messages_message /\ UNCHANGED <<plural_vars, parse_vars, wml_vars, tag_vars>>
    \/ check_messages_end /\ UNCHANGED <<plural_vars, parse_vars, wml_vars, tag_vars>>

SpecMessages == InitMessages /\ [][NextMessages]_vars

(***************************************************************************)
(* SpecTags: the priority of a Tag asked for                               *)
(***************************************************************************)
InitTags == TagsInit /\ PluralIdle /\ ParseIdle /\ WmlIdle /\ FlagsIdle /\ MessagesIdle

NextTags ==
    \/ set_severity /\ UNCHANGED <<plural_vars, parse_vars, wml_vars, flag_vars, messages_vars>>
    \/ set_certainty /\ UNCHANGED <<plural_vars, parse_vars, wml_vars, flag_vars, messages_vars>>
    \/ call_get_priority /\ UNCHANGED <<plural_vars, parse_vars, wml_vars, flag_vars, messages_vars>>

SpecTags == InitTags /\ [][NextTags]_vars

(***************************************************************************)
(* Properties of check_plurals                                             *)
(***************************************************************************)
\* the findings with a given message
Findings(msg) == SelectSeq(tags, LAMBDA t : t.msg = msg)

CodomainErrors == {"codomain-error-in-plural-forms", "codomain-error-in-unused-plural-forms"}
ArithmeticErrors ==
    {"arithmetic-error-in-plural-forms", "arithmetic-error-in-unused-plural-forms"}

\* the calls of expr went through 0, 1, 2, ... in this order
Ascending == \A k \in DOMAIN calls : calls[k] = k - 1

\* the loop is over: check_plurals is past the sampling
Sampled == pc \in {"codomain", "period", "report", "done", "raised"}

\* r, the result of the last call expr(last), with the findings `found` of
\* the form f(i) = v >= n
StopsAtExcess(r, last, found) ==
    IF r.err = "" /\ r.v >= n
    THEN /\ Sampled
         /\ Len(found) = 1
         /\ found[1].name \in CodomainErrors
         /\ found[1].args = <<last, r.v, n>>
    ELSE found = <<>>

\* C1: the sample points are evaluated in ascending order 0, 1, 2, ...; at
\* the first sample point whose value is >= n the loop is over (no later
\* point is evaluated), and exactly one codomain-error finding of the form
\* f(i) = v >= n exists, naming that point, its value and n; while every
\* value so far is below n there is no such finding.
C1_StopsAtFirstExcess ==
    /\ Ascending
    /\ calls # <<>> =>
           StopsAtExcess(Evaluate(expr, calls[Len(calls)]), calls[Len(calls)],
                         Findings("f({}) = {} >= {}"))

\* check_plurals returned after f(1) = 1 >= 1 ended the sampling at the
\* second sample point
C1_Witness ==
    /\ pc = "done"
    /\ Len(calls) = 2
    /\ \E k \in DOMAIN tags : tags[k].msg = "f({}) = {} >= {}" /\ tags[k].args = <<1, 1, 1>>

ArithmeticFindings == SelectSeq(tags, LAMBDA t : t.name \in ArithmeticErrors)

\* r, the result of the last call expr(last), with the arithmetic-error
\* findings `found`
StopsAtError(r, last, found) ==
    /\ r.err # "" =>
           /\ Sampled
           /\ Len(found) = 1
           /\ found[1].args = <<last>>
           /\ found[1].msg = IF r.err = "overflow" THEN "f({}): integer overflow"
                             ELSE "f({}): division by zero"
    /\ Len(found) <= 1

\* C2: when expr(i) raises OverflowError or ZeroDivisionError, i being the
\* first sample point in ascending order that fails, exactly one
\* arithmetic-error finding exists and it names i, no later sample point is
\* evaluated, and check_plurals goes on past the loop: the exception does
\* not leave it.
C2_StopsAtArithmeticError ==
    /\ Ascending
    /\ exception \notin {"OverflowError", "ZeroDivisionError"}
    /\ calls # <<>> =>
           StopsAtError(Evaluate(expr, calls[Len(calls)]), calls[Len(calls)],
                        ArithmeticFindings)

\* check_plurals returned after 10/(5-n) divided by zero at the sixth
\* sample point
C2_Witness ==
    /\ pc = "done"
    /\ Len(calls) = 6
    /\ \E k \in DOMAIN tags :
          /\ tags[k].name \in ArithmeticErrors
          /\ tags[k].msg = "f({}): division by zero"
          /\ tags[k].args = <<5>>

\* every sample point evaluates without an error to a value below pn
AllInRange(e, pn) ==
    \A k \in 0..(codomain_limit - 1) : Evaluate(e, k).err = "" /\ Evaluate(e, k).v < pn

\* C3: when check_plurals returns, ctx.plural_preimage is a map only if all
\* 200 sample points were evaluated, each without an error and with a value
\* below n; after an early stop, or when the declaration was not analysed,
\* it is None.
C3_MapOnlyAfterFullSample ==
    (pc = "done" /\ ctx_plural_preimage # None) =>
        /\ Len(calls) = codomain_limit
        /\ i = codomain_limit
        /\ AllInRange(expr, n)

\* check_plurals returned with a map
C3_Witness == pc = "done" /\ ctx_plural_preimage # None /\ Len(calls) = codomain_limit

\* C4, as stated: if the sampling evaluated all 200 points without an error
\* or an early stop, ctx.plural_preimage is a map when check_plurals returns.
C4_MapRetained ==
    (pc = "done" /\ i = codomain_limit) => ctx_plural_preimage # None

\* C4, amended: if the sampling evaluated all 200 points without an error or
\* an early stop, then when check_plurals returns ctx.plural_preimage is the
\* map of the sampling if no uncovered range was reported, and None if one
\* was (line 506).
C4_MapRetainedUnlessRangeReported ==
    (pc = "done" /\ i = codomain_limit) =>
        IF Findings("f(x) != {}") = <<>>
        THEN ctx_plural_preimage = Some(plural_preimage)
        ELSE ctx_plural_preimage = None

\* check_plurals returned after a full sampling that reported an uncovered
\* range
C4_Witness ==
    pc = "done" /\ i = codomain_limit /\ Len(calls) = codomain_limit
    /\ Findings("f(x) != {}") # <<>>

\* C5: check_plurals raises no exception for a declaration that parses, and
\* completes when codomain() returns None.
C5_NoException == exception = "" /\ pc # "raised"

\* the ranges of the static analysis, for codomain() = (x, y)
StaticRangesOf(x, y, rs) ==
    /\ (x > 0) <=> (\E k \in DOMAIN rs : rs[k] = range(0, x))
    /\ (y < n - 1) <=> (\E k \in DOMAIN rs : rs[k] = range(y + 1, n))
    /\ \A k \in DOMAIN rs : InRange(rs[k]) \subseteq 0..(n - 1)

\* C6: when codomain() returns (x, y) with 0 <= x <= y, a range below x is
\* reported iff x > 0, a range above y iff y < n - 1, and each of these
\* ranges lies within [0, n-1].
C6_StaticRangesWithinIndices ==
    (pc = "period" /\ codomain # None /\ codomain[1][1] >= 0) =>
        StaticRangesOf(codomain[1][1], codomain[1][2], uncov_rngs[1])

(***************************************************************************)
(* Properties of the parser                                                *)
(***************************************************************************)
Parsed == parse_pc \in {"parsed", "called"}

\* C7: a chain of conditionals nested in the false branch,
\* c1 ? v1 : c2 ? v2 : ... : v, parses, and the expression returned has at
\* every number the value of c1 ? v1 : (c2 ? v2 : (... : v)); so
\* n==0?0:n==1?1:2 is 0 at 0, 1 at 1 and 2 from 2 on.
C7_RightAssociative ==
    (Parsed /\ parse_input.kind = "chain") =>
        /\ parse_result.raised = ""
        /\ parse_pc = "called" =>
               /\ call_result.err = ""
               /\ call_result.v = ChainValue(parse_input.conds, parse_input.vals, call_n)

\* n==0?0:n==1?1:2 was parsed and called on 3, with the result 2
C7_Witness ==
    /\ parse_pc = "called"
    /\ parse_input.kind = "chain"
    /\ parse_input.text = Chain(<<A_n_eq_0, A_n_eq_1>>, <<A_0, A_1, A_2>>, <<>>)
    /\ call_n = 3
    /\ call_result = [err |-> "", v |-> 2]

\* C8: a conditional written without parentheses in the true branch of
\* another, a ? b ? c : d : e, parses, and the expression returned has at
\* every number the value of a ? (b ? c : d) : e.
C8_NestedInTrueBranch ==
    (Parsed /\ parse_input.kind = "nested") =>
        /\ parse_result.raised = ""
        /\ parse_pc = "called" =>
               /\ call_result.err = ""
               /\ call_result.v = NestedValue(parse_input.conds, parse_input.vals, call_n)

\* the characters of the tokens
TokenAlphabet ==
    Digits \cup {"n", "=", "!", "&", "|", "<", ">", "*", "/", "%", "+", "-", "?", ":",
                 "(", ")", " ", TAB}

RECURSIVE Balanced(_, _, _)
\* from position p on, with depth parentheses open, every `)' of s closes an
\* open `(' and every `(' is closed
Balanced(s, p, depth) ==
    IF p > Len(s) THEN depth = 0
    ELSE IF s[p] = "(" THEN Balanced(s, p + 1, depth + 1)
    ELSE IF s[p] = ")" THEN depth > 0 /\ Balanced(s, p + 1, depth - 1)
    ELSE Balanced(s, p + 1, depth)

\* C9: parse_plural_expression raises PluralExpressionSyntaxError on every
\* input that holds a character outside the token alphabet and on every
\* input whose parentheses are unbalanced.
C9_RejectsForeignCharacters ==
    (Parsed /\ parse_input.kind = "text"
        /\ (Range(parse_input.text) \ TokenAlphabet # {} \/ ~Balanced(parse_input.text, 1, 0)))
    => parse_result.raised = "PluralExpressionSyntaxError"

\* [1-9][0-9]*
IsNumber(s) == s # <<>> /\ s[1] # "0" /\ Range(s) \subseteq Digits

\* the word stands in s at position p
Holds(s, p, word) == p + Len(word) - 1 <= Len(s) /\ SubSeq(s, p, p + Len(word) - 1) = word

\* the positions of s, and the one after them
Positions(s) == 1..(Len(s) + 1)

\* EXPR from position e on: not empty, and all that stands before the final
\* `;' or, without one, before the end of s
ExprsAt(s, e) ==
    {Slice(s, e, g - 1) :
        g \in {h \in Positions(s) :
                 /\ h > e
                 /\ ";" \notin Range(Slice(s, e, h - 1))
                 /\ \/ h = Len(s) + 1
                    \/ /\ s[h] = ";"
                       /\ Range(Slice(s, h + 1, Len(s))) \subseteq Whitespace}}

\* whitespace plural=EXPR [;] whitespace, from position c on
PluralsAt(s, c) ==
    UNION {ExprsAt(s, d + Len(S_plural)) :
             d \in {h \in Positions(s) :
                      /\ h >= c
                      /\ Range(Slice(s, c, h - 1)) \subseteq Whitespace
                      /\ Holds(s, h, S_plural)}}

\* N; from position b on, with what follows it
NumbersAt(s, b) ==
    UNION {{<<Slice(s, b, c - 1), x>> : x \in PluralsAt(s, c + 1)} :
             c \in {h \in Positions(s) :
                      /\ h > b
                      /\ IsNumber(Slice(s, b, h - 1))
                      /\ At(s, h) = ";"}}

\* The pairs <<N, EXPR>> for the ways s reads as
\*   whitespace nplurals=N; whitespace plural=EXPR [;] whitespace
ShapeOf(s) ==
    UNION {NumbersAt(s, a + Len(S_nplurals)) :
             a \in {h \in Positions(s) :
                      /\ Range(Slice(s, 1, h - 1)) \subseteq Whitespace
                      /\ Holds(s, h, S_nplurals)}}

RECURSIVE Decimal(_)
\* the number a string of digits stands for
Decimal(s) == IF s = <<>> THEN 0 ELSE 10 * Decimal(SubSeq(s, 1, Len(s) - 1)) + DigitVal(s[Len(s)])

\* what parse_plural_forms is to give for the readings `shape' of its input
FormsResult(result, shape) ==
    IF \E q \in shape : parse_plural_expression(q[2]).raised = ""
    THEN /\ result.raised = ""
         /\ result.n >= 1
         /\ \E q \in shape : /\ result.n = Decimal(q[1])
                             /\ result.expr = parse_plural_expression(q[2]).expr
    ELSE /\ result.raised \in PluralFormsSyntaxError
         /\ shape = {} => result.raised = "PluralFormsSyntaxError"

\* C10: parse_plural_forms returns (n, expr), n >= 1 the number N and expr
\* the expression of EXPR, exactly for the inputs of the shape
\* nplurals=N; plural=EXPR; (N without a leading zero, the final semicolon
\* optional, whitespace around) whose EXPR parses; on every other input, a
\* mismatch of the shape or a syntax error of the expression, it raises a
\* PluralFormsSyntaxError.
C10_FormsShape ==
    (Parsed /\ parse_input.kind = "forms") =>
        FormsResult(parse_result, ShapeOf(parse_input.text))

\* nplurals=10 with an expression that parses was accepted
C10_Witness ==
    /\ parse_pc = "parsed"
    /\ parse_input.kind = "forms"
    /\ parse_result.raised = ""
    /\ parse_result.n = 10

(***************************************************************************)
(* Properties of the WML variables check                                   *)
(***************************************************************************)
\* the findings of check_args with a given name about the identifier key
WmlFindings(name, key) ==
    SelectSeq(wml_tags, LAMBDA t : t.name = name /\ t.args = <<key>>)

WmlNamed(name) == SelectSeq(wml_tags, LAMBDA t : t.name = name)

\* the findings with this name are one for each identifier of keys, and no
\* other
OneForEach(name, keys) ==
    /\ \A key \in keys : Len(WmlFindings(name, key)) = 1
    /\ Len(WmlNamed(name)) = Cardinality(keys)

\* C11: check_args reports unknown-variable once for each identifier that
\* is an argument of the translation and not of the original, and for no
\* other; when the two strings have the same arguments, in whatever order
\* and number of placeholders, it reports nothing.
C11_UnknownVariables ==
    wml_pc = "done" =>
        /\ OneForEach("wml-variables-format-string-unknown-variable",
                      dst_fmt.arguments \ src_fmt.arguments)
        /\ src_fmt.arguments = dst_fmt.arguments => wml_tags = <<>>

\* two identifiers of the translation that the original lacks were reported
C11_Witness ==
    /\ wml_pc = "done"
    /\ Cardinality(dst_fmt.arguments \ src_fmt.arguments) = 2
    /\ Len(WmlNamed("wml-variables-format-string-unknown-variable")) = 2

\* C12: check_args reports missing-argument once for each identifier that
\* is an argument of the original and not of the translation, except that
\* it reports none when exactly one is missing and omitted_int_conv_ok is
\* set; two or more are all reported, omitted_int_conv_ok or not.
C12_MissingArguments ==
    wml_pc = "done" =>
        OneForEach("wml-variables-format-string-missing-argument",
                   IF Cardinality(src_fmt.arguments \ dst_fmt.arguments) = 1
                      /\ omitted_int_conv_ok
                   THEN {} ELSE src_fmt.arguments \ dst_fmt.arguments)

\* two missing identifiers were reported although omitted_int_conv_ok is set
C12_Witness ==
    /\ wml_pc = "done"
    /\ omitted_int_conv_ok
    /\ Cardinality(src_fmt.arguments \ dst_fmt.arguments) = 2
    /\ Len(WmlNamed("wml-variables-format-string-missing-argument")) = 2

\* The identifiers of the placeholders of s: what follows a `$', as far as
\* the characters of `rest' go, when it begins with a character of `first'
\* and has two characters or more
Identifiers(s, first, rest) ==
    {SubSeq(s, pq[1] + 1, pq[2]) :
        pq \in {r \in (1..Len(s)) \X (1..Len(s)) :
                  /\ s[r[1]] = "$"
                  /\ r[2] >= r[1] + 2
                  /\ s[r[1] + 1] \in first
                  /\ \A k \in (r[1] + 1)..r[2] : s[k] \in rest
                  /\ At(s, r[2] + 1) \notin rest}}

AsciiWordChars == LowerCase \cup UpperCase \cup Digits \cup {"_"}

Parsed_src == wml_pc \in {"dst", "args", "done"}

\* C13, as stated: the arguments of FormatString(s) are the identifiers of
\* the placeholders of s, a placeholder being `$' and at least two
\* characters of [A-Za-z0-9_] and `.'.
C13_ArgumentsOfAsciiRuns ==
    Parsed_src =>
        src_fmt.arguments
            = Identifiers(wml_src, AsciiWordChars \cup {"."}, AsciiWordChars \cup {"."})

\* C13, amended: the arguments of FormatString(s) are the identifiers of the
\* placeholders of s, a placeholder being `$', one word character (a letter
\* or digit, of ASCII or not, or `_') and at least one more character that
\* is a word character or `.'; other text contributes no argument.
C13_ArgumentsOfWordRuns ==
    Parsed_src =>
        src_fmt.arguments = Identifiers(wml_src, WordChars, WordChars \cup {"."})

\* $a.a was parsed, with the argument a.a
C13_Witness ==
    /\ Parsed_src
    /\ wml_src = <<"$", "a", ".", "a">>
    /\ src_fmt.arguments = {<<"a", ".", "a">>}

\* C14: iterating FormatString(s) gives the atoms of s, literal text and
\* placeholders, in the order they stand in s: put together they are s.
C14_ItemsCoverInput == Parsed_src => Concat(src_fmt.items) = wml_src

(***************************************************************************)
(* Claims about _check_message_flags                                       *)
(***************************************************************************)

Checked == flag_pc = "done"

Flags == Range(message_flags)

Occurrences(flag) == Cardinality({k \in DOMAIN message_flags : message_flags[k] = flag})

\* the findings of one name and one tuple of arguments
FlagFindings(name, args) ==
    SelectSeq(flag_tags, LAMBDA t : t.name = name /\ t.args = args)

FlagNamed(name) == SelectSeq(flag_tags, LAMBDA t : t.name = name)

Dialects == DOMAIN string_formats

Positive(x) == x \o S_format

Negated(prefix, x) == prefix \o x \o S_format

NegativePrefixes == {<<"n", "o", "-">>, <<"i", "m", "p", "o", "s", "s", "i", "b", "l", "e", "-">>}

\* C15: a message with the flags X-format and no-X-format, or X-format and
\* impossible-X-format, gets exactly one conflicting-message-flags finding
\* for that pair; a positive flag and a negative flag of another dialect,
\* or a pair that is not complete, get none.
C15_PositiveAgainstNegative ==
    Checked =>
        \A x \in Dialects, y \in Dialects, prefix \in NegativePrefixes :
            Len(FlagFindings("conflicting-message-flags", <<Positive(x), Negated(prefix, y)>>))
                = IF x = y /\ Positive(x) \in Flags /\ Negated(prefix, y) \in Flags
                  THEN 1
                  ELSE 0

\* c-format stood with impossible-c-format and no-python-format: one
\* finding for the first pair
C15_Witness ==
    /\ Checked
    /\ {F_c, F_impossible_c, F_no_python} \subseteq Flags
    /\ Len(FlagFindings("conflicting-message-flags", <<F_c, F_impossible_c>>)) = 1

IsDecimal(s) == s # <<>> /\ Range(s) \subseteq Digits

IsBlank(s) == Range(s) \subseteq StripChars

\* the bounds <<a, b>> a range flag states: range: and, between blanks,
\* decimal a, two dots and decimal b (at most one pair)
BoundsAt(flag, p) ==
    {<<Decimal(SubSeq(flag, Len(S_range) + 1 + p[1], p[2] - 1)),
       Decimal(SubSeq(flag, p[2] + 2, p[3]))>>}

BoundsOf(flag) ==
    IF ~startswith(flag, S_range)
    THEN {}
    ELSE LET m == Len(flag)
             o == Len(S_range)
         IN  UNION {UNION {UNION {BoundsAt(flag, <<lead, dots, last>>) :
                                  last \in {e \in (dots + 2)..m :
                                                /\ IsDecimal(SubSeq(flag, dots + 2, e))
                                                /\ IsBlank(SubSeq(flag, e + 1, m))}} :
                           dots \in {d \in (o + lead + 2)..(m - 2) :
                                         /\ IsDecimal(SubSeq(flag, o + lead + 1, d - 1))
                                         /\ SubSeq(flag, d, d + 1) = <<".", ".">>}} :
                    lead \in {l \in 0..(m - o) : IsBlank(SubSeq(flag, o + 1, o + l))}}

IsRangeFlag(flag) == startswith(flag, S_range)

\* a range flag that does not state bounds a..b with a < b
InvalidRange(flag) == IsRangeFlag(flag) /\ \A p \in BoundsOf(flag) : ~(p[1] < p[2])

ValidBounds == {p \in UNION {BoundsOf(flag) : flag \in Flags} : p[1] < p[2]}

EffectiveRange == <<info.range_min, info.range_max>>

\* the flags the findings on ranges name
RangeFlagsNamed ==
    UNION {Range(flag_tags[k].args) : k \in {x \in DOMAIN flag_tags :
               flag_tags[x].name = "conflicting-message-flags"}}

\* C16: a range flag whose payload is not a..b with decimal a < b gets one
\* invalid-range-flag finding; the effective range is the default or the
\* bounds of a valid range flag of the message, as if the invalid flags were
\* not there; the ranges collected for the detection of range conflicts and
\* range duplicates hold valid flags only, and no conflict names an invalid
\* flag.
C16_InvalidRangeIgnored ==
    Checked =>
        /\ \A flag \in Flags :
               Len(FlagFindings("invalid-range-flag", <<flag>>))
                   = IF InvalidRange(flag) THEN 1 ELSE 0
        /\ IF ValidBounds = {}
           THEN EffectiveRange = <<0, inf>>
           ELSE \E p \in ValidBounds : EffectiveRange = <<p[1], Finite(p[2])>>
        /\ \A key \in DOMAIN range_flags :
               /\ key \in ValidBounds
               /\ \A flag \in DOMAIN range_flags[key] :
                      /\ flag \in Flags
                      /\ BoundsOf(flag) = {key}
                      /\ range_flags[key][flag] = Occurrences(flag)
        /\ \A flag \in RangeFlagsNamed : ~InvalidRange(flag)

\* range:1..5 stood with range:5..1 and range:3..3: two findings, and the
\* range is 1..5
C16_Witness ==
    /\ Checked
    /\ Flags = {F_range_1_5, F_range_5_1, F_range_3_3}
    /\ Len(FlagNamed("invalid-range-flag")) = 2
    /\ EffectiveRange = <<1, Finite(5)>>

\* the conflicting-message-flags findings that name two range flags
RangeConflicts ==
    SelectSeq(flag_tags,
              LAMBDA t : /\ t.name = "conflicting-message-flags"
                         /\ \A flag \in Range(t.args) : IsRangeFlag(flag))

\* C17: range flags with two or more different valid bounds get exactly one
\* conflicting-message-flags finding for the ranges, which names two flags
\* of the message with different bounds; range flags that all state the
\* same bounds get none.
C17_OneRangeConflict ==
    Checked =>
        /\ Len(RangeConflicts) = IF Cardinality(ValidBounds) >= 2 THEN 1 ELSE 0
        /\ \A k \in DOMAIN RangeConflicts :
               LET args == RangeConflicts[k].args
               IN  /\ Len(args) = 2
                   /\ Range(args) \subseteq Flags
                   /\ BoundsOf(args[1]) # BoundsOf(args[2])
                   /\ BoundsOf(args[1]) \cup BoundsOf(args[2]) \subseteq ValidBounds

\* three range flags with three different bounds: one finding
C17_Witness ==
    /\ Checked
    /\ Flags = {F_range_1_5, F_range_2_6, F_range_0_9}
    /\ Len(RangeConflicts) = 1

\* the wrap and no-wrap flags of the message
WrapFlags == Flags \cap {S_wrap, S_no_wrap}

\* C18: a message with both wrap and no-wrap gets exactly one
\* conflicting-message-flags finding that names wrap and no-wrap, in
\* whatever order and number the two flags stand; a message with only one
\* of them gets none.
C18_OneWrapConflict ==
    Checked =>
        Len(SelectSeq(flag_tags,
                      LAMBDA t : /\ t.name = "conflicting-message-flags"
                                 /\ Range(t.args) \cap {S_wrap, S_no_wrap} # {}))
            = IF WrapFlags = {S_wrap, S_no_wrap} THEN 1 ELSE 0

\* wrap, no-wrap and wrap again: one finding
C18_Witness ==
    /\ Checked
    /\ message_flags = <<S_wrap, S_no_wrap, S_wrap>>
    /\ Len(FlagFindings("conflicting-message-flags", <<S_wrap, S_no_wrap>>)) = 1

\* C19: every flag that stands more than once in the flags of a message
\* gets exactly one duplicate-message-flag finding, valid range flags
\* included, whatever other range flags stand beside them.
C19_OneDuplicatePerRepeatedFlag ==
    Checked =>
        \A flag \in Flags :
            Occurrences(flag) > 1 => Len(FlagFindings("duplicate-message-flag", <<flag>>)) = 1

\* the dialects of an unordered pair both have their positive flag
BothPositive(pair) == \A x \in pair : Positive(x) \in Flags

\* the findings on the positive flags of the two dialects of a pair
PositiveConflicts(pair) ==
    SelectSeq(flag_tags,
              LAMBDA t : /\ t.name = "conflicting-message-flags"
                         /\ Len(t.args) = 2
                         /\ t.args[1] # t.args[2]
                         /\ Range(t.args) = {Positive(x) : x \in pair})

\* C20: two positive format flags of different dialects get a
\* conflicting-message-flags finding exactly when the entries of the two
\* dialects in the table of format examples have no element in common, and
\* an unordered pair of dialects gets at most one finding.
C20_PositiveAgainstPositive ==
    Checked =>
        \A x \in Dialects :
            \A y \in Dialects \ {x} :
                Len(PositiveConflicts({x, y}))
                    = IF BothPositive({x, y}) /\ string_formats[x] \cap string_formats[y] = {}
                      THEN 1
                      ELSE 0

\* c-format, python-format and sh-format: sh-format conflicts with both,
\* c-format and python-format do not conflict
C20_Witness ==
    /\ Checked
    /\ Flags = {F_c, F_python, F_sh}
    /\ Len(FlagNamed("conflicting-message-flags")) = 2
    /\ Len(PositiveConflicts({<<"c">>, <<"s", "h">>})) = 1

S_possible == <<"p", "o", "s", "s", "i", "b", "l", "e", "-">>

\* the conflicting-message-flags findings that name both flags
ConflictsBetween(f, g) ==
    SelectSeq(flag_tags,
              LAMBDA t : t.name = "conflicting-message-flags" /\ {f, g} \subseteq Range(t.args))

\* C21: a message with X-format and possible-X-format gets exactly one
\* redundant-message-flag finding for the pair, which names the possible
\* flag as implied by the positive one, and no conflicting-message-flags
\* finding for it; a pair of different dialects, or one that is not
\* complete, gets no redundant-message-flag finding.
C21_RedundantNotConflicting ==
    Checked =>
        \A x \in Dialects, y \in Dialects :
            /\ Len(FlagFindings("redundant-message-flag",
                                <<Negated(S_possible, x), Positive(y)>>))
                   = IF x = y /\ Positive(y) \in Flags /\ Negated(S_possible, x) \in Flags
                     THEN 1
                     ELSE 0
            /\ ConflictsBetween(Positive(y), Negated(S_possible, x)) = <<>>

\* c-format stood twice with possible-c-format: one redundant finding
C21_Witness ==
    /\ Checked
    /\ message_flags = <<F_c, F_possible_c, F_c>>
    /\ Len(FlagNamed("redundant-message-flag")) = 1
    /\ ConflictsBetween(F_c, F_possible_c) = <<>>

(***************************************************************************)
(* Claims about check_messages                                             *)
(***************************************************************************)

MessagesChecked == messages_pc = "done"

\* the loop passes over the message
Skipped(entry) == entry.obsolete \/ (entry.msgid = <<>> /\ entry.msgctxt = None)

\* what the body of the loop reports for the message when no message was
\* checked before it
FindingsAlone(entry) ==
    message_findings(entry, [fuzzy |-> S_fuzzy \in Range(entry.flags)], EmptyMap, {},
                     ctx_is_template, ctx_encoding)

\* C22: the findings check_messages reports for a message depend only on
\* the message and on the context of the catalog, not on the messages
\* checked before it: they are the findings the message gets when it is
\* the first one checked, and messages with the same flags get the same
\* findings from _check_message_flags.
C22_MessagesIndependent ==
    MessagesChecked =>
        \A k \in DOMAIN message_tags :
            /\ ~Skipped(ctx_file[k]) => message_tags[k].rest = FindingsAlone(ctx_file[k])
            /\ \A l \in DOMAIN message_tags :
                   /\ ~Skipped(ctx_file[k])
                   /\ ~Skipped(ctx_file[l])
                   /\ ctx_file[k].flags = ctx_file[l].flags
                   /\ (ctx_file[k].msgid_plural = None) = (ctx_file[l].msgid_plural = None)
                   => message_tags[k].flags = message_tags[l].flags

(***************************************************************************)
(* Further claims about check_plurals                                      *)
(***************************************************************************)

UnusualForms == {"unusual-plural-forms", "unusual-unused-plural-forms"}

Named(names) == SelectSeq(tags, LAMBDA t : t.name \in names)

\* the sample points evaluated so far at which the declared expression
\* and the only locally correct one have different values
DifferingPoints ==
    IF locally_correct_expr = None THEN {}
    ELSE {k \in Range(calls) :
              /\ Evaluate(expr, k).err = ""
              /\ Evaluate(locally_correct_expr[1], k).err = ""
              /\ Evaluate(expr, k).v < n
              /\ Evaluate(expr, k).v # Evaluate(locally_correct_expr[1], k).v}

\* C23: one run of check_plurals reports unusual-plural-forms, in either
\* variant, at most once: once when the language has no form with the
\* declared nplurals or when sample points differ from its only such form,
\* however many of them differ.
C23_UnusualAtMostOnce ==
    /\ Len(Named(UnusualForms)) <= 1
    /\ (pc = "done" /\ DifferingPoints # {}) => Len(Named(UnusualForms)) = 1

\* check_plurals returned after a sampling in which every point differed
\* from the locally correct expression
C23_Witness ==
    /\ pc = "done"
    /\ Cardinality(DifferingPoints) = codomain_limit
    /\ Len(Named(UnusualForms)) = 1

PlainVariants ==
    {"syntax-error-in-plural-forms", "unusual-plural-forms",
     "codomain-error-in-plural-forms", "arithmetic-error-in-plural-forms"}

UnusedVariants ==
    {"syntax-error-in-unused-plural-forms", "unusual-unused-plural-forms",
     "codomain-error-in-unused-plural-forms", "arithmetic-error-in-unused-plural-forms"}

\* a message of the catalog that is not obsolete has a plural form
UsesPlurals == \E k \in DOMAIN file : ~file[k].obsolete /\ file[k].msgid_plural

\* C24: the findings of check_plurals on syntax errors, unusual forms,
\* codomain errors and arithmetic errors have the unused variant of their
\* tag when no message of the catalog that is not obsolete has a plural
\* form, and the plain variant when one has; a run never has both.
C24_VariantFollowsUse ==
    \A k \in DOMAIN tags :
        /\ tags[k].name \in PlainVariants => UsesPlurals
        /\ tags[k].name \in UnusedVariants => ~UsesPlurals

\* the only message with a plural form is obsolete, and the syntax error
\* was reported as one of unused plural forms
C24_Witness ==
    /\ pc = "done"
    /\ file = <<Message(TRUE, TRUE, TRUE, 3)>>
    /\ Len(Named(UnusedVariants)) = 1
    /\ metadata = <<PF_syntax>>

\* check_plurals was given a catalog that is no template, with one
\* Plural-Forms value, which parses, and it has returned or raised
Analysed ==
    /\ pc \in {"done", "raised"}
    /\ ~is_template
    /\ Cardinality(Range(metadata)) = 1
    /\ \A h \in Range(metadata) : parse_plural_forms(h).raised = ""

\* nplurals of the declaration
Declared == parse_plural_forms(metadata[1]).n

\* the numbers of msgstr items of the translated plural messages that are
\* not obsolete
SlotCounts ==
    {file[k].msgstr_plural : k \in {j \in DOMAIN file :
         ~file[j].obsolete /\ file[j].msgid_plural /\ file[j].translated}}

IncorrectNumber == SelectSeq(tags, LAMBDA t : t.name = "incorrect-number-of-plural-forms")

InconsistentNumber ==
    SelectSeq(tags, LAMBDA t : t.name = "inconsistent-number-of-plural-forms")

\* C25, as stated: for a catalog that is no template and whose
\* Plural-Forms declaration parses, incorrect-number-of-plural-forms is
\* reported when some translated plural message that is not obsolete has a
\* number of msgstr items other than nplurals, and not when all agree.
C25_IncorrectNumberWheneverDifferent ==
    Analysed => (IncorrectNumber # <<>> <=> SlotCounts \ {Declared} # {})

\* C25, amended: for such a catalog incorrect-number-of-plural-forms is
\* reported, once and with nplurals and the number of msgstr items, when
\* the translated plural messages that are not obsolete all have the same
\* number of msgstr items and it is not nplurals; when they have numbers
\* that differ from each other, inconsistent-number-of-plural-forms is
\* reported and incorrect-number-of-plural-forms is not; when all agree
\* with nplurals neither is.
C25_IncorrectNumberOfTheOnlyCount ==
    Analysed =>
        /\ IncorrectNumber
               = IF Cardinality(SlotCounts) = 1 /\ SlotCounts # {Declared}
                 THEN <<Tag("incorrect-number-of-plural-forms", "",
                            <<Declared, CHOOSE c \in SlotCounts : TRUE>>, <<>>)>>
                 ELSE <<>>
        /\ Len(InconsistentNumber) = IF Cardinality(SlotCounts) > 1 THEN 1 ELSE 0

\* nplurals=3 with translated messages of two and of three msgstr items:
\* the inconsistency was reported, the incorrect number was not
C25_Witness ==
    /\ pc = "done"
    /\ Analysed
    /\ Declared = 3
    /\ SlotCounts = {2, 3}
    /\ Len(InconsistentNumber) = 1
    /\ IncorrectNumber = <<>>

SamplePoints == 0..(codomain_limit - 1)

\* seq lists the numbers of S in ascending order, each once
AscendingListOf(seq, S) ==
    /\ Range(seq) = S
    /\ \A a \in DOMAIN seq : \A b \in DOMAIN seq : a < b => seq[a] < seq[b]

\* m maps each of its keys to the ascending list of the sample points at
\* which the results rs have that value, the keys are below pn, and not
\* below 0 when no result is; each sample point is in exactly one list
PreimageOfSample(m, rs, pn) ==
    /\ \A v \in DOMAIN m :
           /\ v < pn
           /\ AscendingListOf(m[v], {k \in SamplePoints : rs[k].err = "" /\ rs[k].v = v})
    /\ (\A k \in SamplePoints : rs[k].v >= 0) => DOMAIN m \subseteq 0..(pn - 1)
    /\ \A k \in SamplePoints : Cardinality({v \in DOMAIN m : k \in Range(m[v])}) = 1

\* check_plurals returned and left a map in ctx.plural_preimage
Retained == pc = "done" /\ ctx_plural_preimage # None

\* the map of the example as the claim gives it, and as it is
ExampleAsStated ==
    (1 :> <<1>>) @@ (0 :> [k \in 1..(codomain_limit - 1) |-> IF k = 1 THEN 0 ELSE k])

ExampleAsSampled ==
    (0 :> <<1>>) @@ (1 :> [k \in 1..(codomain_limit - 1) |-> IF k = 1 THEN 0 ELSE k])

Ended == pc \in {"done", "raised"}

\* seq holds numbers of 0..199 in ascending order, none twice
SamplePointsOnce(seq) ==
    /\ \A a \in DOMAIN seq : seq[a] \in SamplePoints
    /\ \A a \in 1..(Len(seq) - 1) : seq[a] < seq[a + 1]

\* check_plurals has a step to take: the guard of the action at pc
CanStep ==
    \/ pc = "start"
    \/ pc = "sample" /\ (in_range(i) \/ i = codomain_limit)
    \/ pc \in {"codomain", "period"}
    \/ pc = "report" /\ uncov_rngs # None

\* an upper bound of the number of steps check_plurals has yet to take
StepsLeft ==
    CASE pc = "start" -> codomain_limit + 5
      [] pc = "sample" -> (codomain_limit - i) + 4
      [] pc = "codomain" -> 3
      [] pc = "period" -> 2
      [] pc = "report" -> 1
      [] OTHER -> 0

\* C27: the plural analysis always terminates: check_plurals calls the
\* declared expression at no more than 200 sample points and the locally
\* correct expression at no more than 200, each point at most once,
\* whatever the expression is, and then it ends: until it has ended it has
\* a step to take, and every step lowers the number of those left.
C27_Terminates ==
    /\ [](/\ SamplePointsOnce(calls)
          /\ SamplePointsOnce(locally_correct_calls)
          /\ Len(calls) <= codomain_limit
          /\ Len(locally_correct_calls) <= codomain_limit
          /\ StepsLeft >= 0
          /\ ~Ended => CanStep)
    /\ [][StepsLeft' < StepsLeft]_vars

\* both expressions were called at all 200 sample points and check_plurals
\* returned
C27_Witness ==
    /\ pc = "done"
    /\ Len(calls) = codomain_limit
    /\ Len(locally_correct_calls) = codomain_limit

\* check_plurals is at line 499: the ranges are final, the map is not yet
\* dropped
AtReport == pc = "report"

\* lines 487-491: no statically uncovered range, the map is available, and
\* expr.period() gave an (offset, length) with offset + length < 200
ScanConditions ==
    /\ static_ranges(codomain, n) = Some(<<>>)
    /\ ctx_plural_preimage # None
    /\ period # None
    /\ period[1] # <<0, Infinity>>
    /\ period[1][1] + period[1][2] < codomain_limit

\* the indices of 0..n-1 with an empty preimage
EmptyPreimages == (0..(n - 1)) \ DOMAIN ctx_plural_preimage[1]

C28_ScanFoundNothing ==
    /\ AtReport
    /\ ScanConditions
    /\ uncov_rngs[1] = <<>>

\* expr.period() returned None: no scan, although an index has no preimage
C28_ScanDisabled ==
    /\ AtReport
    /\ period = Some(<<0, Infinity>>)
    /\ EmptyPreimages # {}
    /\ uncov_rngs[1] = <<>>

Duplicate == Tag("duplicate-header-field-plural-forms", "", <<>>, <<>>)

\* the header has more than one Plural-Forms field and lines 362-446 ran
Repeated == pc # "start" /\ Len(metadata) > 1

\* check_plurals stands at line 449 before the first sample point, or has
\* returned before it
AfterHead == calls = <<>> /\ pc \in {"sample", "done"}

\* the findings after the first and the locals are those of the header h
SameAs(h) ==
    /\ Tail(tags) = h.tags
    /\ (pc = "done") = h.returns
    /\ plural_forms = h.plural_forms
    /\ plural_forms_hint = h.hint
    /\ has_plurals = h.has_plurals
    /\ n = h.n
    /\ expr = h.expr
    /\ locally_correct_n = h.locally_correct_n
    /\ locally_correct_expr = h.locally_correct_expr

\* C29: when the header has more than one Plural-Forms field,
\* check_plurals reports the duplication exactly once, as a finding of its
\* own, and the rest depends on the set of the distinct values only:
\* copies of one value are analysed as that value in a header with one
\* field is, and distinct values end the check with no other finding,
\* whatever their order.
C29_DuplicateOnceThenDistinct ==
    Repeated =>
        /\ tags # <<>> /\ tags[1] = Duplicate
        /\ Len(Named({"duplicate-header-field-plural-forms"})) = 1
        /\ IF Cardinality(Range(metadata)) > 1
           THEN pc = "done" /\ tags = <<Duplicate>> /\ ctx_plural_preimage = None
           ELSE AfterHead =>
                    SameAs(head_fields(<<metadata[1]>>, {metadata[1]},
                                       messages_loop(1, FALSE, {}),
                                       correct_plural_forms, is_template))

\* two copies of one declaration were analysed to the end as one
C29_Witness ==
    /\ pc = "done"
    /\ metadata = <<PF_n_ne_1, PF_n_ne_1>>
    /\ Len(calls) = codomain_limit
    /\ tags = <<Duplicate>>
    /\ ctx_plural_preimage # None

\* two distinct declarations, in one order and in the other
C29_Conflicting ==
    /\ pc = "done"
    /\ metadata \in {<<PF_n_ne_1, PF_n>>, <<PF_n, PF_n_ne_1>>}
    /\ tags = <<Duplicate>>

(***************************************************************************)
(* Claims about Tag.get_priority                                           *)
(***************************************************************************)
\* the priority letters in the order P < I < W < E
Letter == [P |-> 0, I |-> 1, W |-> 2, E |-> 3]

\* call b has the severity of call a and its certainty or a higher one, or
\* the certainty of call a and its severity or a higher one
Raised(a, b) ==
    \/ /\ a.severity = b.severity
       /\ certainties[a.certainty] <= certainties[b.certainty]
    \/ /\ a.certainty = b.certainty
       /\ severities[a.severity] <= severities[b.severity]

\* C30: get_priority is monotone: with the letters ordered P < I < W < E,
\* a higher certainty at the same severity, or a higher severity at the
\* same certainty, never gives a lower letter, for all 6 severities and 3
\* certainties.
C30_PriorityMonotone ==
    \A a \in Range(priorities) : \A b \in Range(priorities) :
        Raised(a, b) => Letter[a.priority] <= Letter[b.priority]

\* an important tag asked for its priority as a wild guess and as possible
C30_ImportantLowered ==
    /\ Len(priorities) = 2
    /\ priorities[1] = [severity |-> "important", certainty |-> "wild-guess", priority |-> "E"]
    /\ priorities[2] = [severity |-> "important", certainty |-> "possible", priority |-> "W"]

====
